---- MODULE Spec2Model ----
(***************************************************************************)
(* A model of the Anchor runtime: the VLQ codec (anchor/src/encoding.rs),  *)
(* the scratch output buffer (anchor/src/output_buffer.rs) and the frame   *)
(* state machine with its write path (anchor/src/transport.rs).            *)
(*                                                                         *)
(* Bytes are the integers 0..255.  A u32 is represented by the i32 that    *)
(* has the same 32 bits (-2^31 .. 2^31-1), so that every intermediate      *)
(* value stays inside TLC's 32-bit integers.                               *)
(***************************************************************************)
EXTENDS Integers, Sequences, FiniteSets, TLC

VARIABLES
    is_synchronized,  \* Transport::is_synchronized
    next_sequence,    \* Transport::next_sequence
    input,            \* the caller's InputBuffer: bytes not yet consumed
    sink,             \* frames handed to the transport output in this iteration
    rx,               \* what the receive call of this iteration was given and did
    tx,               \* what the sender call of this iteration wrote
    codec,            \* the VLQ codec's last operation
    ident,            \* the data dictionary, the last identify call, the host's walk
    build,            \* the message catalog of a build and what became of it
    fifo,             \* a FifoBuffer and the last call on it
    out,              \* an OutputBuffer in use, with a cursor taken on it
    usb,              \* the shared transmit FIFO of rp2040_demo and its users
    enums,            \* a generated enumeration and a conversion through it
    tracker,          \* the static strings of the build and what the dictionary lists
    scan,             \* the build's scan of the program for macros, and how the build ended
    pad,             \* a ScratchOutput under any sequence of calls
    iter,             \* one loop of receive or parse_frame, iteration by iteration
    chunked,          \* a byte stream given to receive chunk by chunk
    shared,           \* a transport used from two execution contexts
    tree,             \* the source scan over a tree of module files
    pc                \* the caller's loop: "idle", "returned" or "panicked"

vars == <<is_synchronized, next_sequence, input, sink, rx, tx, codec, ident, build,
          fifo, out, usb, enums, tracker, scan, pad, iter, chunked, shared, tree, pc>>

----------------------------------------------------------------------------
(* Bit arithmetic on non-negative integers of a given width.               *)

\* The exclusive or of two 4-bit values, bit by bit.
Xor4 ==
    [a \in 0..15 |-> [b \in 0..15 |->
        ((a + b) % 2)
        + 2 * (((a \div 2) + (b \div 2)) % 2)
        + 4 * (((a \div 4) + (b \div 4)) % 2)
        + 8 * (((a \div 8) + (b \div 8)) % 2)]]

Xor8(a, b) == 16 * Xor4[a \div 16][b \div 16] + Xor4[a % 16][b % 16]
Xor16(a, b) == 256 * Xor8(a \div 256, b \div 256) + Xor8(a % 256, b % 256)

RECURSIVE Pow2(_)
Pow2(n) == IF n = 0 THEN 1 ELSE 2 * Pow2(n - 1)

Drop(s, n) == SubSeq(s, n + 1, Len(s))
Take(s, n) == SubSeq(s, 1, n)

Min(a, b) == IF a < b THEN a ELSE b

----------------------------------------------------------------------------
(* anchor/src/transport.rs: constants and crc16                            *)

MESSAGE_HEADER_SIZE == 2
MESSAGE_TRAILER_SIZE == 3
MESSAGE_LENGTH_MIN == MESSAGE_HEADER_SIZE + MESSAGE_TRAILER_SIZE
MESSAGE_LENGTH_MAX == 64
MESSAGE_POSITION_LENGTH == 0
MESSAGE_POSITION_SEQ == 1
MESSAGE_TRAILER_CRC == 3
MESSAGE_TRAILER_SYNC == 1
MESSAGE_VALUE_SYNC == 126
MESSAGE_DEST == 16
MESSAGE_SEQ_MASK == 15

\* One round of the loop body of crc16: crc is a u16, byte a u8.
crc16_step(crc, byte) ==
    LET b1  == Xor8(byte, crc % 256)
        b   == Xor8(b1, (b1 * 16) % 256)
        hi  == ((b * 256) % 65536) + (crc \div 256)
    IN  Xor16(Xor16(hi, b \div 16), (b * 8) % 65536)

\* Four rounds, over buf[i] .. buf[i+3]
crc16_step4(crc, buf, i) ==
    crc16_step(crc16_step(crc16_step(crc16_step(crc, buf[i]), buf[i + 1]),
                          buf[i + 2]), buf[i + 3])

RECURSIVE crc16_from(_, _, _)
\* `for b in buf`, from the i-th byte on; the rounds are taken four at a time
\* while four bytes are left.
crc16_from(crc, buf, i) ==
    IF i > Len(buf) THEN crc
    ELSE IF i + 3 <= Len(buf)
    THEN LET next == crc16_step4(crc, buf, i)
         IN  IF next >= 0 THEN crc16_from(next, buf, i + 4) ELSE 0
    ELSE LET next == crc16_step(crc, buf[i])
         IN  IF next >= 0 THEN crc16_from(next, buf, i + 1) ELSE 0

crc16(buf) == crc16_from(65535, buf, 1)

crc_hi(crc) == (crc \div 256) % 256
crc_lo(crc) == crc % 256

----------------------------------------------------------------------------
(* anchor/src/output_buffer.rs: the two OutputBuffer implementations.      *)
(* A buffer is [kind, max, data, panicked]: data is buffer[..idx] for a    *)
(* ScratchOutput<max> and the whole vector for a Vec<u8>; panicked records *)
(* a panic of one of its operations (a copy_from_slice between slices of   *)
(* different lengths, an index or a slice out of range), after which       *)
(* nothing more is done to the buffer.                                     *)

ScratchOutput_new(max) ==
    [kind |-> "scratch", max |-> max, data |-> <<>>, panicked |-> FALSE]

Vec_new == [kind |-> "vec", max |-> 0, data |-> <<>>, panicked |-> FALSE]

\* ScratchOutput::output with area.len() = area and the clamped length len:
\* area[..len].copy_from_slice(buf) panics unless buf.len() = len.
scratch_copy(ob, buf, len) ==
    IF Len(buf) # len THEN [ob EXCEPT !.panicked = TRUE]
    ELSE [ob EXCEPT !.data = @ \o Take(buf, len)]

\* OutputBuffer::output
output(ob, buf) ==
    IF ob.panicked THEN ob
    ELSE IF ob.kind = "scratch"
    THEN scratch_copy(ob, buf, Min(Len(buf), ob.max - Len(ob.data)))
    ELSE [ob EXCEPT !.data = @ \o buf]

\* OutputBuffer::cur_position
cur_position(ob) ==
    IF ob.kind = "scratch" THEN Len(ob.data)
    ELSE IF Len(ob.data) = 0 THEN 0 ELSE Len(ob.data) - 1

\* OutputBuffer::update; cursors count from 0.
update(ob, cursor, value) ==
    IF ob.panicked THEN ob
    ELSE IF cursor < Len(ob.data)
    THEN [ob EXCEPT !.data[cursor + 1] = value]
    ELSE IF ob.kind = "scratch" THEN ob
    ELSE [ob EXCEPT !.panicked = TRUE]

\* OutputBuffer::data_since
data_since(ob, cursor) ==
    IF cursor >= Len(ob.data) THEN <<>> ELSE Drop(ob.data, cursor)

\* Whether data_since panics: only Vec's &self[cursor..] with cursor > len.
data_since_panics(ob, cursor) == ob.kind = "vec" /\ cursor > Len(ob.data)

\* ScratchOutput::result
result(ob) == ob.data

\* ScratchOutput::reset
reset(ob) == IF ob.panicked THEN ob ELSE [ob EXCEPT !.data = <<>>]

----------------------------------------------------------------------------
(* anchor/src/encoding.rs: the VLQ codec.                                  *)

I32_MIN == -2147483647 - 1

\* next_byte: [ok, v, data]; data is the slice after the call.
next_byte(data) ==
    IF data = <<>> THEN [ok |-> FALSE, v |-> 0, data |-> data]
    ELSE [ok |-> TRUE, v |-> Head(data), data |-> Tail(data)]

\* (v << 7) | g on a u32 (g < 128): the low 25 bits of v move up, the rest
\* fall off.
shl7_or(v, g) ==
    LET low25 == v % 33554432
        top   == low25 \div 16777216
        rest  == low25 % 16777216
    IN  IF top = 1 THEN (rest * 128 + g) + I32_MIN ELSE rest * 128 + g

\* Each step below is written as an operator applied to the result of the
\* call before it, so that a result is computed once and used many times.

RECURSIVE parse_vlq_more(_, _, _)
\* The body of the while loop of parse_vlq_int, n being next_byte's result.
parse_vlq_next(n, v) ==
    IF ~n.ok THEN [ok |-> FALSE, v |-> 0, data |-> n.data]
    ELSE parse_vlq_more(n.v, shl7_or(v, n.v % 128), n.data)

\* The while loop of parse_vlq_int: c is the last byte read.
parse_vlq_more(c, v, data) ==
    IF c \div 128 = 0 THEN [ok |-> TRUE, v |-> v, data |-> data]
    ELSE parse_vlq_next(next_byte(data), v)

\* The first byte of parse_vlq_int, n being next_byte's result: the sign
\* extension when (c & 0x60) == 0x60.
parse_vlq_first(n) ==
    IF ~n.ok THEN [ok |-> FALSE, v |-> 0, data |-> n.data]
    ELSE parse_vlq_more(n.v,
                        IF (n.v \div 32) % 4 = 3 THEN (n.v % 128) - 128
                        ELSE n.v % 128,
                        n.data)

\* parse_vlq_int: [ok, v, data]; on an error data stays where the last
\* next_byte left it.
parse_vlq_int(data) == parse_vlq_first(next_byte(data))

\* The range -(1 << (S-2)) .. (4 << (S-2)): all of the low S bits
vlq_skips_group_wide(sv, S) ==
    (-Pow2(S - 2) <= sv) /\ (sv < 4 * Pow2(S - 2))

\* The symmetric range -(1 << (S-2)) .. (1 << (S-2))
vlq_skips_group_symmetric(sv, S) ==
    (-Pow2(S - 2) <= sv) /\ (sv < Pow2(S - 2))

\* -(1 << (S-2)) .. (3 << (S-2)) for the shift S of one group
vlq_skips_group(sv, S) ==
    (-Pow2(S - 2) <= sv) /\ (sv < 3 * Pow2(S - 2))

\* One `if` of encode_vlq_int: the group at shift S, when sv needs it.
vlq_group(ob, sv, S) ==
    IF ~vlq_skips_group(sv, S)
    THEN output(ob, << ((sv \div Pow2(S)) % 128) + 128 >>)
    ELSE ob

\* encode_vlq_int(output, v)
encode_vlq_int(ob, v) ==
    LET sv == v
        o1 == vlq_group(ob, sv, 28)
        o2 == vlq_group(o1, sv, 21)
        o3 == vlq_group(o2, sv, 14)
        o4 == vlq_group(o3, sv, 7)
    IN  output(o4, << sv % 128 >>)

\* An `as i16` that keeps the 16 bits as an unsigned number
as_i16_unsigned(v) == v % 65536

\* `as` conversions of the u32 that parse_vlq_int returns
as_u32(v) == v
as_i32(v) == v
as_u16(v) == v % 65536
as_i16(v) == LET w == v % 65536 IN IF w >= 32768 THEN w - 65536 ELSE w
as_u8(v)  == v % 256

\* The conversion each Readable applies to parse_vlq_int's result r.
read_as(type, r) ==
    IF ~r.ok THEN r
    ELSE CASE type = "u8"   -> [r EXCEPT !.v = as_u8(r.v)]
           [] type = "u16"  -> [r EXCEPT !.v = as_u16(r.v)]
           [] type = "i16"  -> [r EXCEPT !.v = as_i16(r.v)]
           [] type = "u32"  -> [r EXCEPT !.v = as_u32(r.v)]
           [] type = "i32"  -> [r EXCEPT !.v = as_i32(r.v)]
           [] type = "bool" -> [r EXCEPT !.v = (r.v # 0)]
           [] type = "bytes" ->
                \* a negative i32 stands for a u32 of 2^31 or more
                IF r.v < 0 \/ Len(r.data) < r.v
                THEN [ok |-> FALSE, v |-> 0, data |-> r.data]
                ELSE [ok |-> TRUE, v |-> Take(r.data, r.v),
                      data |-> Drop(r.data, r.v)]

\* <u8/u16/i16/u32/i32/bool as Readable>::read and <&[u8] as Readable>::read:
\* [ok, v, data]
read(type, data) == read_as(type, parse_vlq_int(data))

\* `*self as u32` of <T as Writable>::write and u32::from(bool), as the i32
\* with the same 32 bits.  t is an integer for u8, u16, i16 and i32, the two
\* 16-bit halves [hi, lo] for u32, and a BOOLEAN for bool.
write_as(type, t) ==
    CASE type = "u32" -> IF t.hi >= 32768 THEN (t.hi - 65536) * 65536 + t.lo
                         ELSE t.hi * 65536 + t.lo
      [] type = "bool" -> IF t THEN 1 ELSE 0
      [] OTHER -> t

\* <T as Writable>::write
write(type, ob, t) == encode_vlq_int(ob, write_as(type, t))

----------------------------------------------------------------------------
(* The message catalog of the generated Config: the commands of             *)
(* testjig/src/main.rs with the IDs assign_command_ids gives the catalog    *)
(* {allocate_oids, clock, emergency_stop, get_clock, identify,              *)
(* identify_response}: identify = 1 and identify_response = 0 are           *)
(* pre-assigned, the others take 2, 3, 4, 5 in key order.                   *)

ID_ALLOCATE_OIDS == 2
ID_CLOCK == 3
ID_EMERGENCY_STOP == 4
ID_GET_CLOCK == 5

\* The handlers write_message_dispatcher emits a match arm for: the argument
\* types each wrapper reads, and the reply its user function sends.
Commands ==
    (ID_ALLOCATE_OIDS :> [args |-> <<"u8">>, reply |-> FALSE])
    @@ (ID_EMERGENCY_STOP :> [args |-> <<>>, reply |-> FALSE])
    @@ (ID_GET_CLOCK :> [args |-> <<>>, reply |-> TRUE])

----------------------------------------------------------------------------
(* anchor/src/transport.rs: the write path.                                *)
(* A machine m is the Transport with what it works on during one call:     *)
(* [sync, ns, data, sink, ev, panicked].  sink is the sequence of frames   *)
(* handed to the transport output; panicked tells that the call ended in a *)
(* panic; ev is the trace of the call, a sequence of                       *)
(* [e, n, bytes, rem, why] with rem the number of input bytes not yet       *)
(* consumed and why the framing test that a "desync" failed.               *)

Machine(sync, ns, data) ==
    [sync |-> sync, ns |-> ns, data |-> data, sink |-> <<>>, ev |-> <<>>,
     panicked |-> FALSE]

Event(e, n, bytes, m) ==
    [e |-> e, n |-> n, bytes |-> bytes, rem |-> Len(m.data), why |-> ""]

\* The body closure of a sender is a sequence of writes, each either raw
\* bytes (output.output(..)) or an integer through its Writable.
RawWrite(bytes) == [w |-> "raw", bytes |-> bytes, v |-> 0]
VlqWrite(v) == [w |-> "vlq", bytes |-> <<>>, v |-> v]

RECURSIVE apply_writes(_, _)
apply_writes(ob, writes) ==
    IF writes = <<>> THEN ob
    ELSE LET h == Head(writes)
         IN  apply_writes(IF h.w = "raw" THEN output(ob, h.bytes)
                          ELSE encode_vlq_int(ob, h.v),
                          Tail(writes))

\* The OutputBuffer a TransportOutput hands to the closure: every sink of the
\* repository builds a fresh ScratchOutput (MAX_SIZE = 64).
SCRATCH_MAX_SIZE == 64

\* TransportOutput::output as the repository's sinks implement it: the frame
\* built in the buffer is handed over as one unit, unless the closure
\* panicked.
transport_output(m, ob) ==
    IF ob.panicked THEN [m EXCEPT !.panicked = TRUE]
    ELSE [m EXCEPT !.sink = Append(@, result(ob)),
                   !.ev = Append(@, Event("out", 0, result(ob), m))]

\* An ACK whose CRC leaves out the length byte
acknak_closure_crc_of_seq(ob, ns) ==
    LET crc == crc16(<<ns>>)
    IN  output(ob, <<5, ns, crc_hi(crc), crc_lo(crc), MESSAGE_VALUE_SYNC>>)

\* The closure of encode_acknak, run on the buffer ob.
acknak_closure(ob, ns) ==
    LET crc == crc16(<<5, ns>>)
    IN  output(ob, <<5, ns, crc_hi(crc), crc_lo(crc), MESSAGE_VALUE_SYNC>>)

\* Transport::encode_acknak
encode_acknak(m) ==
    IF m.panicked THEN m
    ELSE transport_output(m, acknak_closure(ScratchOutput_new(SCRATCH_MAX_SIZE), m.ns))

\* The trailer with the CRC stored low byte first
frame_trailer_low_first(o, cursor) ==
    output(o, <<crc_lo(crc16(data_since(o, cursor))),
                crc_hi(crc16(data_since(o, cursor))), MESSAGE_VALUE_SYNC>>)

\* The end of the closure of encode_frame: the length byte, the CRC, the
\* trailer; o is the buffer with the length byte updated.
frame_trailer(o, cursor) ==
    output(o, <<crc_hi(crc16(data_since(o, cursor))),
                crc_lo(crc16(data_since(o, cursor))), MESSAGE_VALUE_SYNC>>)

\* The length byte without the trailer's three bytes
frame_finish_no_trailer(o, cursor) ==
    frame_trailer(update(o, cursor, Len(data_since(o, cursor)) % 256), cursor)

\* Lines 164-173: `changed`, the update of the length byte, and the trailer;
\* o is the buffer after the caller's closure.
frame_finish(o, cursor) ==
    IF data_since_panics(o, cursor) THEN [o EXCEPT !.panicked = TRUE]
    ELSE frame_trailer(update(o, cursor,
                              (Len(data_since(o, cursor)) + MESSAGE_TRAILER_SIZE) % 256),
                       cursor)

\* The closure of encode_frame, run on the buffer ob with the body writes f.
frame_closure(ob, ns, f) ==
    frame_finish(apply_writes(output(ob, <<0, ns>>), f), cur_position(ob))

\* An encode_frame that stamps the frame with the sequence byte before
\* next_sequence
encode_frame_previous(m, ob, f) ==
    IF m.panicked THEN m
    ELSE transport_output(m, frame_closure(ob, ((m.ns + MESSAGE_SEQ_MASK)
                                                  % (MESSAGE_SEQ_MASK + 1)) + MESSAGE_DEST, f))

\* Transport::encode_frame, on the empty buffer ob the sink provides.
encode_frame(m, ob, f) ==
    IF m.panicked THEN m ELSE transport_output(m, frame_closure(ob, m.ns, f))

----------------------------------------------------------------------------
(* The generated dispatcher and Transport::parse_frame.                    *)

RECURSIVE read_args(_, _, _)
\* One `let name = <ty as Readable>::read(data)?;` of a wrapper, r being
\* read's result.
read_arg(types, vals, r) ==
    IF ~r.ok THEN [ok |-> FALSE, vals |-> vals, data |-> r.data]
    ELSE read_args(Tail(types), Append(vals, r.v), r.data)

\* The argument reads of a wrapper: [ok, vals, data]
read_args(types, vals, data) ==
    IF types = <<>> THEN [ok |-> TRUE, vals |-> vals, data |-> data]
    ELSE read_arg(types, vals, read(Head(types), data))

\* The closure of a generated reply or output sender for the message id with
\* the arguments args: `output.output(&[#id]); #(#writers)*`
sender_writes(id, args) ==
    <<RawWrite(<<id>>)>> \o [k \in 1..Len(args) |-> VlqWrite(args[k])]

\* The user function behind a command, entered in the trace by `called`:
\* get_clock replies clock(cur_clock()), the others send nothing.
user_reply(called, cmd, clock) ==
    IF Commands[cmd].reply
    THEN encode_frame(called, ScratchOutput_new(SCRATCH_MAX_SIZE),
                      <<RawWrite(<<ID_CLOCK>>), VlqWrite(clock)>>)
    ELSE called

user_handler(m, cmd, vals, clock) ==
    user_reply([m EXCEPT !.ev = Append(@, Event("call", cmd, vals, m))], cmd, clock)

\* A wrapper that calls its user function with what it could read
wrapper_call_on_error(cmd, a, m, clock) ==
    [ok |-> a.ok, frame |-> a.data, m |-> user_handler(m, cmd, a.vals, clock)]

\* A wrapper _anchor_<name>_handler, a being the result of its reads.
wrapper(cmd, a, m, clock) ==
    IF ~a.ok THEN [ok |-> FALSE, frame |-> a.data, m |-> m]
    ELSE [ok |-> TRUE, frame |-> a.data, m |-> user_handler(m, cmd, a.vals, clock)]

\* Config::dispatch: [ok, frame, m]
dispatch(cmd, frame, m, clock) ==
    IF cmd \notin DOMAIN Commands THEN [ok |-> FALSE, frame |-> frame, m |-> m]
    ELSE wrapper(cmd, read_args(Commands[cmd].args, <<>>, frame), m, clock)

RECURSIVE parse_frame(_, _, _)
\* `C::dispatch(cmd, &mut frame, context)?`, d being dispatch's result.
parse_frame_next(d, clock) ==
    IF ~d.ok THEN d.m ELSE parse_frame(d.frame, d.m, clock)

\* `let cmd = <u16 as Readable>::read(&mut frame)?`, c being read's result.
parse_frame_cmd(c, m, clock) ==
    IF ~c.ok THEN m ELSE parse_frame_next(dispatch(c.v, c.data, m, clock), clock)

\* One iteration of the while loop of parse_frame, d being dispatch's result
\* and c.ok: [m, frame, stop]; stop is the return through `?`.
parse_frame_dispatched(d) == [m |-> d.m, frame |-> d.frame, stop |-> ~d.ok]

\* One iteration of the while loop of parse_frame, c being read's result.
parse_frame_read(c, m, clock) ==
    IF ~c.ok THEN [m |-> m, frame |-> c.data, stop |-> TRUE]
    ELSE parse_frame_dispatched(dispatch(c.v, c.data, m, clock))

parse_frame_step(frame, m, clock) == parse_frame_read(read("u16", frame), m, clock)

\* Transport::parse_frame: the machine after the handlers that ran.
parse_frame(frame, m, clock) ==
    IF frame = <<>> \/ m.panicked THEN m
    ELSE parse_frame_cmd(read("u16", frame), m, clock)

----------------------------------------------------------------------------
(* The generated identify handler (write_data_dictionary).  Its arguments  *)
(* are u32 and their sum may pass 2^32, so a u32 is kept here as two       *)
(* 16-bit halves [hi, lo].                                                 *)

\* The IDs add_identify gives its two messages.
ID_IDENTIFY_RESPONSE == 0
ID_IDENTIFY == 1

U32(hi, lo) == [hi |-> hi, lo |-> lo]

\* `offset + count` on u32: with overflow checks (a debug build) a sum past
\* 2^32 - 1 panics, without them (a release build) it wraps.  [panicked, v]
u32_add_hi(a, b, lo, checks) ==
    [panicked |-> checks /\ a.hi + b.hi + lo \div 65536 >= 65536,
     v |-> U32((a.hi + b.hi + lo \div 65536) % 65536, lo % 65536)]

\* The sum that leaves the first operand out
u32_add_second_only(a, b, checks) == [panicked |-> FALSE, v |-> b]

u32_add(a, b, checks) == u32_add_hi(a, b, a.lo + b.lo, checks)

\* `a.min(DATA.len() as u32)`, len being DATA.len(), below 2^16
u32_min(a, len) == IF a.hi > 0 \/ a.lo > len THEN len ELSE a.lo

\* message_handlers::send_reply_identify_response(offset, data)
send_reply_identify_response(m, offset, data) ==
    encode_frame(m, ScratchOutput_new(SCRATCH_MAX_SIZE),
                 <<RawWrite(<<ID_IDENTIFY_RESPONSE>>), VlqWrite(offset),
                   VlqWrite(Len(data)), RawWrite(data)>>)

\* Lines 809-811 after the sum: the two `min`, the slice
\* &DATA[offset..end], which panics when offset > end, and the reply.
identify_slice(DATA, offset, count, sum, m) ==
    IF sum.panicked \/ u32_min(offset, Len(DATA)) > u32_min(sum.v, Len(DATA))
    THEN [m EXCEPT !.panicked = TRUE]
    ELSE send_reply_identify_response(
             m, u32_min(offset, Len(DATA)),
             SubSeq(DATA, u32_min(offset, Len(DATA)) + 1, u32_min(sum.v, Len(DATA))))

\* handle_identify(offset, count) of a build with or without overflow checks.
handle_identify(DATA, offset, count, checks, m) ==
    identify_slice(DATA, offset, count, u32_add(offset, count, checks), m)

----------------------------------------------------------------------------
(* anchor_codegen: the IDs of the message catalog.  The catalog is the     *)
(* BTreeMap `messages` in key order, a sequence of [kind, id]; id is NONE  *)
(* for a message without an ID.                                            *)

NONE == -1
U8_MAX == 255

Message(kind, id) == [kind |-> kind, id |-> id]

\* The two messages of add_identify
identify == Message("command", ID_IDENTIFY)
identify_response == Message("reply", ID_IDENTIFY_RESPONSE)

\* Lines 536-541: the IDs the messages bring along.
used_ids(messages) ==
    {messages[i].id : i \in {j \in 1..Len(messages) : messages[j].id # NONE}}

\* The loop that takes the cursor itself, used or not
first_unused_no_skip(used, from) == from

\* `while used_ids.contains(&id) { id += 1; }` starting at `from`: the ID the
\* loop stops at, or NONE when it steps past 255.
first_unused(used, from) ==
    IF \A x \in from..U8_MAX : x \in used THEN NONE
    ELSE CHOOSE x \in from..U8_MAX :
            x \notin used /\ \A y \in from..(x - 1) : y \in used

\* What a call of the closure assign_id comes to: "ok" with the ID, the used
\* set and the cursor after it, a panic, or a loop without end.  wrapped
\* tells that a u8 addition wrapped round.
AssignResult(outcome, id, used, next_id, wrapped) ==
    [outcome |-> outcome, id |-> id, used |-> used, next_id |-> next_id,
     wrapped |-> wrapped]

\* Lines 550-552: used_ids.insert(id); next_id = id + 1; id
assign_store(used, id, checks, wrapped) ==
    IF id = NONE THEN AssignResult("hang", NONE, used, 0, TRUE)
    ELSE IF id = U8_MAX
    THEN IF checks THEN AssignResult("overflow", NONE, used, 0, FALSE)
         ELSE AssignResult("ok", id, used \cup {id}, 0, TRUE)
    ELSE AssignResult("ok", id, used \cup {id}, id + 1, wrapped)

\* Lines 547-549, id being where the loop got to below 256: past 255 the
\* `id += 1` panics with overflow checks and goes on from 0 without them.
assign_found(used, id, checks) ==
    IF id # NONE THEN assign_store(used, id, checks, FALSE)
    ELSE IF checks THEN AssignResult("overflow", NONE, used, 0, FALSE)
    ELSE assign_store(used, first_unused(used, 0), checks, TRUE)

\* The closure assign_id (lines 544-553)
assign_id(used, next_id, checks) ==
    IF next_id = U8_MAX THEN AssignResult("too_many", NONE, used, next_id, FALSE)
    ELSE assign_found(used, first_unused(used, next_id), checks)

----------------------------------------------------------------------------
(* anchor/src/fifo_buffer.rs: FifoBuffer<BUF_SIZE>, [buffer, used] with    *)
(* the last call on it, whether a call on it panicked, what its users put  *)
(* in and have not taken out (stream), and whether the sum of an advance   *)
(* has passed usize::MAX (passed).  A usize has the 32 bits of the         *)
(* thumbv6m target of rp2040_demo and is kept as two 16-bit halves where   *)
(* it is an argument that may be anything.                                 *)

BUF_SIZE == 4

\* FifoBuffer::new
FifoBuffer_new ==
    [buffer |-> [i \in 1..BUF_SIZE |-> 0], used |-> 0,
     panicked |-> FALSE, stream |-> <<>>, passed |-> FALSE,
     last |-> [op |-> "none", buf |-> <<>>, n |-> U32(0, 0),
               before |-> [buffer |-> <<>>, used |-> 0]]]

\* FifoBuffer::receive_buffer: the part that is not filled
receive_buffer(f) == Drop(f.buffer, f.used)

\* FifoBuffer::data: the part that is filled
fifo_data(f) == Take(f.buffer, f.used)

\* into[..buf.len()].copy_from_slice(buf), `into` starting behind `used`
copy_into(f, buf) ==
    [i \in 1..Len(f.buffer) |->
        IF f.used < i /\ i <= f.used + Len(buf) THEN buf[i - f.used] ELSE f.buffer[i]]

\* An extend that appends what fits
extend_what_fits(f, buf) ==
    [f EXCEPT !.buffer = copy_into(f, Take(buf, Min(Len(buf), Len(receive_buffer(f))))),
              !.used = Min(f.used + Len(buf), Len(f.buffer))]

\* FifoBuffer::extend
extend(f, buf) ==
    IF Len(receive_buffer(f)) < Len(buf) THEN f
    ELSE [f EXCEPT !.buffer = copy_into(f, buf), !.used = @ + Len(buf)]

\* The clamp of advance, sum being `self.used + n`
advance_clamp(f, sum) ==
    IF sum.panicked THEN [f EXCEPT !.panicked = TRUE]
    ELSE [f EXCEPT !.used = u32_min(sum.v, Len(f.buffer))]

\* FifoBuffer::advance of a build with or without overflow checks:
\* `self.used + n` past usize::MAX panics with them and wraps without.
advance(f, n, checks) == advance_clamp(f, u32_add(U32(0, f.used), n, checks))

\* A pop that moves no byte
fifo_pop_no_move(f, n) == [f EXCEPT !.used = f.used - Min(n, f.used)]

\* FifoBuffer::pop: the bytes n..used move to the front
fifo_pop(f, n) ==
    [f EXCEPT !.buffer = [i \in 1..Len(f.buffer) |->
                             IF i <= f.used - Min(n, f.used)
                             THEN f.buffer[i + Min(n, f.used)] ELSE f.buffer[i]],
              !.used = f.used - Min(n, f.used)]

\* rp2040_demo/src/usb.rs: USB_TX_BUFFER, a FifoBuffer behind a Mutex, here
\* of USB_TX_SIZE bytes.
USB_TX_SIZE == 12

USB_TX_BUFFER == [buffer |-> [i \in 1..USB_TX_SIZE |-> 0], used |-> 0]

\* CdcAcmClass::new(&usb_allocator, 64)
MAX_PACKET_SIZE == 64

\* An output that puts in what fits of the frame
usb_extend_truncating(txbuf, scratch) == extend_what_fits(txbuf, result(scratch))

\* BufferTransportOutput::output, line 17: the extend inside free
usb_extend(txbuf, scratch) == extend(txbuf, result(scratch))

\* UsbPacketWriter::write_packets, lines 39-41: the bytes offered to
\* serial.write_packet.  full_count is never raised, so `write` is `data`.
usb_write(txbuf) == Take(fifo_data(txbuf), Min(txbuf.used, MAX_PACKET_SIZE))

----------------------------------------------------------------------------
(* anchor_codegen/src/enumeration.rs: the conversions generated for a      *)
(* klipper_enumeration.  A variant is [kind, ident, start, count]; a        *)
(* generated variant is named by <<ident>> or <<prefix, n>>.               *)

Single(name) == [kind |-> "Single", ident |-> name, start |-> 0, count |-> 1]
Range(prefix, start, count) ==
    [kind |-> "Range", ident |-> prefix, start |-> start, count |-> count]

\* EnumVariant::count
variant_count(v) == IF v.kind = "Single" THEN 1 ELSE v.count

RECURSIVE numbered_from(_, _)
\* The scan of numbered_variants with its state
numbered_from(variants, state) ==
    IF variants = <<>> THEN <<>>
    ELSE <<[v |-> Head(variants), start |-> state, cnt |-> variant_count(Head(variants))]>>
         \o numbered_from(Tail(variants), state + variant_count(Head(variants)))

\* Enumeration::numbered_variants: (variant, start, cnt)
numbered_variants(variants) == numbered_from(variants, 0)

\* max_variant of a non-empty list of numbered variants
last_number(numbered) ==
    numbered[Len(numbered)].start + numbered[Len(numbered)].cnt - 1

\* Enumeration::max_variant
max_variant(variants) ==
    IF variants = <<>> THEN 0 ELSE last_number(numbered_variants(variants))

\* The arms `i => Ok(Self::ident)` variant_matches makes for one variant
matches_of(nv) ==
    IF nv.v.kind = "Single"
    THEN <<[number |-> nv.start, ident |-> <<nv.v.ident>>]>>
    ELSE [k \in 1..nv.cnt |->
             [number |-> nv.start + (k - 1), ident |-> <<nv.v.ident, nv.v.start + (k - 1)>>]]

\* The arms `Self::ident => i` variant_to_matches makes for one variant: for
\* a Range, i runs over ident_start..ident_start + cnt and the number is
\* i + start.
to_matches_of(nv) ==
    IF nv.v.kind = "Single"
    THEN <<[number |-> nv.start, ident |-> <<nv.v.ident>>]>>
    ELSE [k \in 1..nv.cnt |->
             [number |-> (nv.v.start + (k - 1)) + nv.start,
              ident |-> <<nv.v.ident, nv.v.start + (k - 1)>>]]

RECURSIVE variant_matches_of(_)
variant_matches_of(numbered) ==
    IF numbered = <<>> THEN <<>>
    ELSE matches_of(Head(numbered)) \o variant_matches_of(Tail(numbered))

\* Enumeration::variant_matches
variant_matches(variants) == variant_matches_of(numbered_variants(variants))

RECURSIVE variant_to_matches_of(_)
variant_to_matches_of(numbered) ==
    IF numbered = <<>> THEN <<>>
    ELSE to_matches_of(Head(numbered)) \o variant_to_matches_of(Tail(numbered))

\* Enumeration::variant_to_matches
variant_to_matches(variants) == variant_to_matches_of(numbered_variants(variants))

\* The first arm of arms that P holds for, 0 when there is none
FirstArm(arms, P(_)) ==
    IF \E k \in 1..Len(arms) : P(arms[k])
    THEN CHOOSE k \in 1..Len(arms) : P(arms[k]) /\ \A j \in 1..(k - 1) : ~P(arms[j])
    ELSE 0

\* The generated TryFrom::try_from: `match value { arms.. _ => Err(()) }`
try_from_arm(arms, k) ==
    IF k = 0 THEN [ok |-> FALSE, ident |-> <<>>] ELSE [ok |-> TRUE, ident |-> arms[k].ident]

try_from(variants, value) ==
    try_from_arm(variant_matches(variants),
                 FirstArm(variant_matches(variants), LAMBDA a : a.number = value))

\* The generated From::from: `match value { arms.. }`, value being a variant
\* of the enumeration
from_arm(arms, k) == arms[k].number

from(variants, name) ==
    from_arm(variant_to_matches(variants),
             FirstArm(variant_to_matches(variants), LAMBDA a : a.ident = name))

----------------------------------------------------------------------------
(* anchor_codegen/src/lib.rs: StaticStringsTracker, [strings, next_id]     *)
(* with strings the BTreeMap as a function from the strings to their IDs.  *)

STATIC_STRING_MIN == 2

\* The empty BTreeMap
BTreeMap_new == [k \in {} |-> 0]

\* StaticStringsTracker::new
StaticStringsTracker_new == [strings |-> BTreeMap_new, next_id |-> STATIC_STRING_MIN]

\* An insert that gives a string that is present a new ID
insert_again(t, ss) ==
    [strings |-> [k \in DOMAIN t.strings \cup {ss} |-> IF k = ss THEN t.next_id ELSE t.strings[k]],
     next_id |-> t.next_id + 1]

\* StaticStringsTracker::insert
insert(t, ss) ==
    IF ss \in DOMAIN t.strings THEN t
    ELSE [strings |-> [k \in DOMAIN t.strings \cup {ss} |->
                          IF k = ss THEN t.next_id ELSE t.strings[k]],
          next_id |-> t.next_id + 1]

\* finalize_dictionary, lines 584-591: the enumeration static_string_id
static_string_enum(t) == [k \in DOMAIN t.strings |-> [Number |-> t.strings[k]]]

----------------------------------------------------------------------------
(* anchor_codegen/src/lib.rs: the scan of the program.  A Processor is     *)
(* here [queue, errors, generate_cfg, met]: the tasks still to do, one per  *)
(* file to read; the errors pushed by                                      *)
(* check_error!, each "syn" for a syn::parse::Error and "anyhow" for any   *)
(* other; and the number of the invocation generate_cfg was taken from, 0  *)
(* for None, with the number of invocations met.  A file is the sequence   *)
(* of the macro invocations in it, and a macro invocation is "generate" (klipper_config_generate!), *)
(* "unparsed" (one whose body its parser rejects) or "plain".              *)

Processor_new(queue) == [queue |-> queue, errors |-> <<>>, generate_cfg |-> 0, met |-> 0]

\* check_error!(self, expr), err being the error of expr or "" for Ok
check_error(p, err) == IF err = "" THEN p ELSE [p EXCEPT !.errors = Append(@, err)]

\* Processor::process_config_generate inside check_error!
process_config_generate(p) ==
    IF p.generate_cfg # 0
    THEN check_error([p EXCEPT !.met = @ + 1], "anyhow")
    ELSE [p EXCEPT !.generate_cfg = p.met + 1, !.met = @ + 1]

\* Visit::visit_macro
visit_macro(p, node) ==
    CASE node = "generate" -> process_config_generate(p)
      [] node = "unparsed" -> check_error(p, "syn")
      [] OTHER -> p

RECURSIVE visit_file(_, _)
visit_file(p, ast) ==
    IF ast = <<>> THEN p ELSE visit_file(visit_macro(p, Head(ast)), Tail(ast))

\* Processor::process_one after the visit: `match self.errors.pop()`.
\* [p, err]
errors_pop(p) ==
    IF p.errors = <<>> THEN [p |-> p, err |-> ""]
    ELSE [p |-> [p EXCEPT !.errors = SubSeq(@, 1, Len(@) - 1)],
          err |-> p.errors[Len(p.errors)]]

\* Processor::process_one for the task at the front of the queue, ast being
\* the file it reads
process_one(p, ast) ==
    errors_pop(visit_file([p EXCEPT !.queue = Tail(@)], ast))

\* ConfigBuilder::build, lines 133-158, err being what process_all returned:
\* a syn::parse::Error makes build return, any other error and Ok go on to
\* assign_ids, finalize_dictionary and the writing of the output file.
build_end(err) == IF err = "syn" THEN "returned" ELSE "written"

----------------------------------------------------------------------------
(* Transport::receive                                                      *)

\* data.iter().position(|b| *b == MESSAGE_VALUE_SYNC): 0-based, -1 for None
RECURSIVE position_sync(_, _)
position_sync(data, i) ==
    IF i > Len(data) THEN -1
    ELSE IF data[i] = MESSAGE_VALUE_SYNC THEN i - 1
    ELSE position_sync(data, i + 1)

\* self.is_synchronized.store(false); continue
desync(m, why) ==
    [m EXCEPT !.sync = FALSE,
              !.ev = Append(@, [Event("desync", 0, <<>>, m) EXCEPT !.why = why])]

\* The advance without the mask: seq + 1
advance_sequence_unmasked(seq) == seq + 1

\* The advance without the DEST nibble: (seq + 1) & MESSAGE_SEQ_MASK
advance_sequence_no_dest(seq) == (seq + 1) % (MESSAGE_SEQ_MASK + 1)

\* (seq + 1) & MESSAGE_SEQ_MASK | MESSAGE_DEST
advance_sequence(seq) == ((seq + 1) % (MESSAGE_SEQ_MASK + 1)) + MESSAGE_DEST

\* The ACK built before the new sequence is stored
accept_dispatch_ack_first(m, seq, frame, clock) ==
    IF seq = m.ns
    THEN parse_frame(frame,
                     [encode_acknak(m) EXCEPT
                         !.ns = advance_sequence(seq),
                         !.ev = Append(@, Event("parse", seq, frame, m))],
                     clock)
    ELSE encode_acknak(m)

\* The dispatch without the sequence check
accept_dispatch_always(m, seq, frame, clock) ==
    encode_acknak(
        parse_frame(frame,
                    [m EXCEPT !.ns = advance_sequence(seq),
                              !.ev = Append(@, Event("parse", seq, frame, m))],
                    clock))

\* The dispatch that leaves next_sequence as it was
accept_dispatch_keep_sequence(m, seq, frame, clock) ==
    encode_acknak(
        IF seq = m.ns
        THEN parse_frame(frame,
                         [m EXCEPT !.ev = Append(@, Event("parse", seq, frame, m))],
                         clock)
        ELSE m)

\* The ACK sent only for a frame that was dispatched
accept_dispatch_no_stale_ack(m, seq, frame, clock) ==
    IF seq = m.ns
    THEN encode_acknak(
             parse_frame(frame,
                         [m EXCEPT !.ns = advance_sequence(seq),
                                   !.ev = Append(@, Event("parse", seq, frame, m))],
                         clock))
    ELSE m

\* Lines 111-118: the sequence check, the dispatch and the ACK of a frame
\* that passed every check; m is the machine after `data = &data[len..]`.
accept_dispatch(m, seq, frame, clock) ==
    encode_acknak(
        IF seq = m.ns
        THEN parse_frame(frame,
                         [m EXCEPT !.ns = advance_sequence(seq),
                                   !.ev = Append(@, Event("parse", seq, frame, m))],
                         clock)
        ELSE m)

accept_consumed(m, seq, frame, clock) ==
    accept_dispatch([m EXCEPT !.ev = Append(@, Event("accept", seq, frame, m))],
                    seq, frame, clock)

\* Lines 109-118: a frame that passed every check.
accept_frame(m, len, clock) ==
    accept_consumed([m EXCEPT !.data = Drop(@, len)],
                    m.data[MESSAGE_POSITION_SEQ + 1],
                    SubSeq(m.data, MESSAGE_HEADER_SIZE + 1, len - MESSAGE_TRAILER_SIZE),
                    clock)

\* The search for a sync byte that also drops the byte after it
resynchronize_one_more(m, n) ==
    IF n >= 0
    THEN encode_acknak([m EXCEPT !.data = Drop(@, Min(n + 2, Len(m.data))),
                                 !.sync = TRUE,
                                 !.ev = Append(@, Event("resync", n, <<>>, m))])
    ELSE [m EXCEPT !.data = <<>>]

\* The search for a sync byte that leaves the bytes it passed in the input
resynchronize_keep(m, n) ==
    IF n >= 0
    THEN encode_acknak([m EXCEPT !.sync = TRUE,
                                 !.ev = Append(@, Event("resync", n, <<>>, m))])
    ELSE [m EXCEPT !.data = <<>>]

\* The search for a sync byte that sends no ACK when it finds one
resynchronize_no_ack(m, n) ==
    IF n >= 0
    THEN [m EXCEPT !.data = Drop(@, n + 1), !.sync = TRUE,
                   !.ev = Append(@, [Event("resync", n, <<>>, m)
                              EXCEPT !.rem = Len(m.data) - (n + 1)])]
    ELSE [m EXCEPT !.data = <<>>]

\* Lines 65-71: the search for a sync byte, n being position's result.
resynchronize(m, n) ==
    IF n >= 0
    THEN encode_acknak([m EXCEPT !.data = Drop(@, n + 1), !.sync = TRUE,
                                 !.ev = Append(@, [Event("resync", n, <<>>, m)
                                            EXCEPT !.rem = Len(m.data) - (n + 1)])])
    ELSE [m EXCEPT !.data = <<>>]

\* The trailer checks without the CRC comparison
check_trailer_no_crc(m, len, clock) ==
    IF m.data[len - MESSAGE_TRAILER_SYNC + 1] # MESSAGE_VALUE_SYNC
    THEN desync(m, "sync")
    ELSE accept_frame(m, len, clock)

\* Lines 96-118: the trailer checks of a frame whose bytes are all there.
check_trailer(m, len, clock) ==
    IF m.data[len - MESSAGE_TRAILER_SYNC + 1] # MESSAGE_VALUE_SYNC
    THEN desync(m, "sync")
    ELSE IF m.data[len - MESSAGE_TRAILER_CRC + 1] * 256
              + m.data[len - MESSAGE_TRAILER_CRC + 2]
            # crc16(Take(m.data, len - MESSAGE_TRAILER_SIZE))
    THEN desync(m, "crc")
    ELSE accept_frame(m, len, clock)

\* One iteration of the while loop: [m, brk]; brk is the `break`.
receive_step(m, clock) ==
    IF ~m.sync
    THEN [m |-> resynchronize(m, position_sync(m.data, 1)), brk |-> FALSE]
    ELSE IF m.data[1] = MESSAGE_VALUE_SYNC
    THEN [m |-> [m EXCEPT !.data = Tail(@)], brk |-> FALSE]
    ELSE IF Len(m.data) < MESSAGE_LENGTH_MIN
    THEN [m |-> m, brk |-> TRUE]
    ELSE IF ~(MESSAGE_LENGTH_MIN <= m.data[MESSAGE_POSITION_LENGTH + 1]
              /\ m.data[MESSAGE_POSITION_LENGTH + 1] <= MESSAGE_LENGTH_MAX)
    THEN [m |-> desync(m, "len"), brk |-> FALSE]
    ELSE IF (m.data[MESSAGE_POSITION_SEQ + 1] \div (MESSAGE_SEQ_MASK + 1))
                * (MESSAGE_SEQ_MASK + 1) # MESSAGE_DEST
    THEN [m |-> desync(m, "seq"), brk |-> FALSE]
    ELSE IF Len(m.data) < m.data[MESSAGE_POSITION_LENGTH + 1]
    THEN [m |-> m, brk |-> TRUE]
    ELSE [m |-> check_trailer(m, m.data[MESSAGE_POSITION_LENGTH + 1], clock),
          brk |-> FALSE]

\* A loop that returns after its first iteration
receive_loop_once(m, clock) ==
    IF m.data = <<>> \/ m.panicked THEN m ELSE receive_step(m, clock).m

RECURSIVE receive_loop(_, _)
\* The end of an iteration, r being receive_step's result.
receive_continue(r, clock) ==
    IF r.brk THEN r.m ELSE receive_loop(r.m, clock)

\* while !data.is_empty() { ... }
receive_loop(m, clock) ==
    IF m.data = <<>> \/ m.panicked THEN m
    ELSE receive_continue(receive_step(m, clock), clock)

\* A pop that empties the buffer
receive_pop_all(data, m) ==
    [m |-> m,
     consumed |-> Len(data),
     pops |-> <<Len(data)>>,
     input |-> <<>>]

\* The pop called whatever `consumed` is
receive_pop_even_zero(data, m) ==
    [m |-> m,
     consumed |-> Len(data) - Len(m.data),
     pops |-> <<Len(data) - Len(m.data)>>,
     input |-> Drop(data, Min(Len(data) - Len(m.data), Len(data)))]

\* Lines 121-125: `input.pop(consumed)` when consumed > 0; m is the machine
\* at the end of the loop.
receive_pop(data, m) ==
    [m |-> m,
     consumed |-> Len(data) - Len(m.data),
     pops |-> IF Len(data) - Len(m.data) > 0 THEN <<Len(data) - Len(m.data)>>
              ELSE <<>>,
     input |-> IF Len(data) - Len(m.data) > 0
               THEN Drop(data, Min(Len(data) - Len(m.data), Len(data)))
               ELSE data]

\* Transport::receive on the buffer content data: the machine at the end of
\* the loop, and the buffer after the pop.
receive(sync, ns, data, clock) ==
    receive_pop(data,
                receive_loop(Machine(sync, ns, data), clock))

----------------------------------------------------------------------------
(* The host side of the wire: what a receive call may be given.            *)

MaxBody == 2       \* bodies over BodyBytes up to this length
MaxGarbage == 3    \* garbage strings over GarbageBytes up to this length
\* the longest body a frame can carry
LongBodyLen == MESSAGE_LENGTH_MAX - MESSAGE_LENGTH_MIN

RECURSIVE SeqsUpTo(_, _)
\* every sequence over S of length 0..n
SeqsUpTo(S, n) ==
    IF n = 0 THEN {<<>>}
    ELSE LET shorter == SeqsUpTo(S, n - 1)
         IN  shorter \cup {Append(q, x) : q \in {r \in shorter : Len(r) = n - 1}, x \in S}

BodyBytes == {ID_EMERGENCY_STOP, MESSAGE_VALUE_SYNC}
GarbageBytes == {MESSAGE_VALUE_SYNC, 5, 16, 255}

\* The longest body: emergency_stop, then an unassigned ID that ends the
\* dispatch, then filler.
UNASSIGNED_ID == ID_GET_CLOCK + 4
LongBody == [i \in 1..LongBodyLen |-> IF i = 1 THEN ID_EMERGENCY_STOP ELSE UNASSIGNED_ID]

\* A run of sync bytes, to push pending bytes through the framer.
FlushLen == 16
Flush == [i \in 1..FlushLen |-> MESSAGE_VALUE_SYNC]

\* allocate_oids(7), get_clock, an unassigned ID, allocate_oids cut short
CommandBodies ==
    {<<ID_ALLOCATE_OIDS, 7>>, <<ID_GET_CLOCK>>, <<UNASSIGNED_ID>>, <<ID_ALLOCATE_OIDS>>}

Bodies == SeqsUpTo(BodyBytes, MaxBody) \cup CommandBodies \cup {LongBody}

\* Command units as the host writes them: the bytes on the wire, the command
\* and the argument values they stand for.  allocate_oids(200) takes a
\* two-byte argument.
HostUnit(bytes, cmd, vals) == [bytes |-> bytes, cmd |-> cmd, vals |-> vals]
GoodUnits ==
    {HostUnit(<<ID_EMERGENCY_STOP>>, ID_EMERGENCY_STOP, <<>>),
     HostUnit(<<ID_ALLOCATE_OIDS, 129, 72>>, ID_ALLOCATE_OIDS, <<200>>),
     HostUnit(<<ID_GET_CLOCK>>, ID_GET_CLOCK, <<>>)}
\* IDs no command has: a free one, and the ID of the reply `clock`
UnassignedUnits ==
    {HostUnit(<<UNASSIGNED_ID>>, UNASSIGNED_ID, <<>>),
     HostUnit(<<ID_CLOCK>>, ID_CLOCK, <<>>)}
\* Units that end mid-value: no argument, half an argument, half an ID
CutUnits ==
    {HostUnit(<<ID_ALLOCATE_OIDS>>, ID_ALLOCATE_OIDS, <<>>),
     HostUnit(<<ID_ALLOCATE_OIDS, 129>>, ID_ALLOCATE_OIDS, <<>>),
     HostUnit(<<130>>, 0, <<>>)}

\* Units whose ID, as the VLQ on the wire decodes to 32 bits, lies outside
\* 0..=255: emergency_stop's ID plus 2^8, plus 2^16 and minus 2^16, and two
\* that agree with no assigned ID modulo 2^16.
WideIds == {ID_EMERGENCY_STOP + 256, ID_EMERGENCY_STOP + 65536,
            ID_EMERGENCY_STOP - 65536, -1, 65535}
WideUnit(id) == HostUnit(result(encode_vlq_int(Vec_new, id)), id, <<>>)
WideLists ==
    {<<WideUnit(id)>> : id \in WideIds}
    \cup {<<WideUnit(id), HostUnit(<<ID_ALLOCATE_OIDS, 7>>, ID_ALLOCATE_OIDS, <<7>>)>> :
             id \in WideIds}

MaxUnits == 2      \* well-formed units in front of the one that fails

\* Unit lists that fail to decode partway: one well-formed unit or none, then
\* an unassigned ID followed by one more unit or not, or a unit cut short.
FailingLists ==
    {P \o E : P \in {<<>>} \cup {<<u>> : u \in GoodUnits},
              E \in {<<u>> : u \in UnassignedUnits \cup CutUnits}
                    \cup {<<u, HostUnit(<<ID_EMERGENCY_STOP>>, ID_EMERGENCY_STOP, <<>>)>> :
                             u \in UnassignedUnits}}

\* The unit lists a body is made of: well-formed units, then nothing, an
\* unassigned ID followed by one more unit or not, or a unit cut short.
UnitLists ==
    {P \o E : P \in SeqsUpTo(GoodUnits, MaxUnits),
              E \in {<<>>} \cup {<<u>> : u \in UnassignedUnits \cup CutUnits}
                    \cup {<<u, HostUnit(<<ID_EMERGENCY_STOP>>, ID_EMERGENCY_STOP, <<>>)>> :
                             u \in UnassignedUnits}}

RECURSIVE UnitBytes(_)
UnitBytes(U) == IF U = <<>> THEN <<>> ELSE Head(U).bytes \o UnitBytes(Tail(U))
Garbage == SeqsUpTo(GarbageBytes, MaxGarbage) \ {<<>>}
SeqBytes == MESSAGE_DEST .. (MESSAGE_DEST + MESSAGE_SEQ_MASK)
Faults == {"len_lo", "len_hi", "len_7e", "seq", "sync", "crc"}

\* head followed by its CRC16, big-endian, and the sync byte
WithTrailer(head, crc) == head \o <<crc_hi(crc), crc_lo(crc), MESSAGE_VALUE_SYNC>>

\* The frame a host builds for sequence byte S and body B.
HostFrame(S, B) ==
    WithTrailer(<<Len(B) + MESSAGE_LENGTH_MIN, S>> \o B,
                crc16(<<Len(B) + MESSAGE_LENGTH_MIN, S>> \o B))

\* The frame f damaged in one place.
Damaged(f, fault) ==
    CASE fault = "len_lo" -> [f EXCEPT ![1] = MESSAGE_LENGTH_MIN - 1]
      [] fault = "len_hi" -> [f EXCEPT ![1] = MESSAGE_LENGTH_MAX + 1]
      [] fault = "len_7e" -> [f EXCEPT ![1] = MESSAGE_VALUE_SYNC]
      [] fault = "seq"    -> [f EXCEPT ![2] = (@ % 16) + 32]
      [] fault = "sync"   -> [f EXCEPT ![Len(f)] = 0]
      [] fault = "crc"    -> [f EXCEPT ![Len(f) - 1] = (@ + 1) % 256]
      [] OTHER            -> f

FaultyFrame(S, B, fault) == Damaged(HostFrame(S, B), fault)

Item(kind, seq, body, fault, garbage, cut, first) ==
    [kind |-> kind, seq |-> seq, body |-> body, fault |-> fault,
     garbage |-> garbage, cut |-> cut, first |-> first]

\* The sequence byte before ns in the cycle 0x10..0x1F
PrevSeq(ns) == ((ns + MESSAGE_SEQ_MASK) % (MESSAGE_SEQ_MASK + 1)) + MESSAGE_DEST

\* What the host may send when the MCU expects ns and holds the unconsumed
\* bytes rest:
\*   frame   a well-formed frame, or one damaged by `fault`
\*   garbage bytes that are no frame
\*   head    the first `cut` bytes of a frame;  tail  the bytes after them
\*   mix     the frames of `first` (correctly sequenced), then garbage, then
\*           one more correctly sequenced frame with `body`
\*   twice   a well-formed frame, sent a second time right after the first
\*   units   a frame whose body is the command units of `first`, then a
\*           frame with emergency_stop
\*   wide    a frame whose body is the command units of `first`, the first of
\*           them with an ID outside 0..=255
\*   retry   a frame whose body is the command units of `first`, which fail
\*           to decode partway, sent a second time right after the first
\* With bytes pending, the host sends the rest of the frame that was cut, a
\* frame, or a run of sync bytes.
\* The sequence values at which bodies of several units are sent: the first
\* and the last of the cycle.
UnitSeqs == {MESSAGE_DEST, MESSAGE_DEST + MESSAGE_SEQ_MASK}

Frames(ns) ==
    {Item("frame", S, B, "", <<>>, 0, <<>>) : S \in {ns, PrevSeq(ns)}, B \in Bodies}
    \cup {Item("frame", S, B, "", <<>>, 0, <<>>) :
             S \in SeqBytes, B \in {<<>>, <<ID_EMERGENCY_STOP>>}}
    \cup {Item("twice", ns, <<ID_GET_CLOCK>>, "", <<>>, 0, <<>>)}
    \cup (IF ns \in UnitSeqs
          THEN {Item("units", ns, UnitBytes(U), "", <<>>, 0, U) : U \in UnitLists}
               \cup {Item("wide", ns, UnitBytes(U), "", <<>>, 0, U) : U \in WideLists}
               \cup {Item("retry", ns, UnitBytes(U), "", <<>>, 0, U) : U \in FailingLists}
          ELSE {})

Noise(ns) ==
    {Item("frame", ns, B, f, <<>>, 0, <<>>) :
        B \in {<<>>, <<ID_EMERGENCY_STOP>>, <<MESSAGE_VALUE_SYNC, ID_EMERGENCY_STOP>>},
        f \in Faults}
    \cup {Item("garbage", ns, <<>>, "", G, 0, <<>>) : G \in Garbage}
    \cup {Item("head", ns, <<ID_ALLOCATE_OIDS, 7>>, "", <<>>, k, <<>>) : k \in 1..6}
    \cup {Item("tail", ns, <<ID_ALLOCATE_OIDS, 7>>, "", <<>>, k, <<>>) : k \in 1..6}
    \cup {Item("mix", ns, <<ID_GET_CLOCK>>, "", G, 0, F) :
             G \in Garbage \cup {<<>>},
             F \in {<<>>, <<HostUnit(<<ID_ALLOCATE_OIDS, 7>>, ID_ALLOCATE_OIDS, <<7>>)>>}}

\* The sequence values at which the host's bytes get damaged: the first two
\* and the last of the cycle.
NoisySeqs == {MESSAGE_DEST, MESSAGE_DEST + 1, MESSAGE_DEST + MESSAGE_SEQ_MASK}

Items(ns, rest) ==
    IF rest = <<>>
    THEN Frames(ns) \cup (IF ns \in NoisySeqs THEN Noise(ns) ELSE {})
    ELSE {Item("tail", ns, <<ID_ALLOCATE_OIDS, 7>>, "", <<>>, Len(rest), <<>>),
          Item("frame", ns, <<ID_EMERGENCY_STOP>>, "", <<>>, 0, <<>>),
          Item("garbage", ns, <<>>, "", Flush, 0, <<>>)}

\* The bytes of an item.
ItemBytes(it) ==
    CASE it.kind = "frame" -> FaultyFrame(it.seq, it.body, it.fault)
      [] it.kind = "garbage" -> it.garbage
      [] it.kind = "head" -> Take(HostFrame(it.seq, it.body), it.cut)
      [] it.kind = "tail" -> Drop(HostFrame(it.seq, it.body), Min(it.cut, 7))
      [] it.kind = "twice" -> HostFrame(it.seq, it.body) \o HostFrame(it.seq, it.body)
      [] it.kind = "wide" -> HostFrame(it.seq, it.body)
      [] it.kind = "retry" -> HostFrame(it.seq, it.body) \o HostFrame(it.seq, it.body)
      [] it.kind = "units" ->
            HostFrame(it.seq, it.body)
            \o HostFrame(advance_sequence(it.seq), <<ID_EMERGENCY_STOP>>)
      [] it.kind = "mix" ->
            IF it.first = <<>>
            THEN it.garbage \o HostFrame(it.seq, it.body)
            ELSE HostFrame(it.seq, UnitBytes(it.first)) \o it.garbage
                 \o HostFrame(advance_sequence(it.seq), it.body)

ClockValues == {0, 300}

RECURSIVE Contains(_, _)
Contains(q, x) == q # <<>> /\ (Head(q) = x \/ Contains(Tail(q), x))

\* cur_clock() is read only by get_clock: one value stands for all when the
\* item carries no get_clock.
ClocksFor(it) == IF Contains(it.body, ID_GET_CLOCK) THEN ClockValues ELSE {0}

\* What a sender may be asked to write: raw bodies of several lengths, and
\* the clock reply.
MaxSendBody == 2
SendBodyLens == (0..MaxSendBody) \cup ((LongBodyLen - 1) .. (LongBodyLen + 3))
SendWrites ==
    {<<RawWrite([i \in 1..n |-> (i * 37) % 256])>> : n \in SendBodyLens}
    \cup {<<RawWrite(<<ID_CLOCK>>), VlqWrite(c)>> : c \in ClockValues}
SmallScratch == 8
OutputBuffers ==
    {ScratchOutput_new(SCRATCH_MAX_SIZE), ScratchOutput_new(SmallScratch), Vec_new}

----------------------------------------------------------------------------
(* The state machine: the caller's loop of testjig/src/main.rs around the  *)
(* transport.                                                              *)

NoRx == [given |-> Item("none", 0, <<>>, "", <<>>, 0, <<>>), sync |-> TRUE,
         ns |-> 0, rest |-> <<>>, data |-> <<>>, ev |-> <<>>, pops |-> <<>>]
NoTx == [sent |-> FALSE, ns |-> 0, writes |-> <<>>, ob |-> Vec_new,
         panicked |-> FALSE]
\* The data dictionary of a build: len bytes.
MaxDict == 130
DictLens == {3, MESSAGE_LENGTH_MAX - 8, MaxDict}
Dictionary(len) == [i \in 1..len |-> (i * 37 + 11) % 256]

NoCall == [called |-> FALSE, offset |-> U32(0, 0), count |-> U32(0, 0),
           checks |-> FALSE, panicked |-> FALSE,
           resp |-> [ok |-> FALSE, offset |-> 0, data |-> <<>>]]
NoWalk == [on |-> FALSE, len |-> U32(0, 0), k |-> U32(0, 0), got |-> <<>>,
           calls |-> 0, done |-> FALSE]
IdentOf(D) == [DATA |-> D, last |-> NoCall, walk |-> NoWalk]

\* No scan of a module tree.  Scanning: fs is the set of the files that
\* exist, p the Processor, contents what the files read so far held, steps
\* the number of process_one calls.
NoTree ==
    [phase |-> "none", fs |-> {}, contents |-> {}, steps |-> 0,
     p |-> [queue |-> <<>>, current_file |-> [dir |-> <<>>, stem |-> "none"],
            current_module |-> <<>>, via |-> <<>>, panicked |-> FALSE]]

\* One transport used by two execution contexts, before anything ran: ns is
\* next_sequence, ns0 its value at the start and stores the number of times
\* receive stored it; sender and receiver are the two contexts, each with
\* the scratch buffer of the TransportOutput::output it is in and the
\* number of stores at the moment its closure loaded next_sequence; buffer
\* is USB_TX_BUFFER as the frames appended to it, in order.
NoShared ==
    [on |-> FALSE, ns0 |-> MESSAGE_DEST, ns |-> MESSAGE_DEST, stores |-> 0,
     sender |-> [at |-> "idle", ob |-> ScratchOutput_new(SCRATCH_MAX_SIZE), stamp |-> 0],
     receiver |-> [at |-> "idle", ob |-> ScratchOutput_new(SCRATCH_MAX_SIZE), stamp |-> 0],
     buffer |-> <<>>]

\* build: the catalog as collected (given) and as it stands (messages), the
\* step the build is at (phase: "none", "assign", "dispatcher", "emitted",
\* "panicked", "hung"), how assign_command_ids ended (assign: "running",
\* "done", "too_many", "overflow", "hung"), the position i of the walk, the
\* used set and the cursor, the slots of the dispatcher, the trace of the
\* assignments made (position and ID), and the cursor and the used set that
\* the last of them started from.
NoBuild == [phase |-> "none", assign |-> "running", given |-> <<>>,
            messages |-> <<>>, i |-> 0, used |-> {}, next_id |-> 0,
            checks |-> FALSE, handlers |-> {}, wrapped |-> FALSE,
            assigned |-> <<>>, last |-> [cursor |-> 0, used |-> {}]]
\* No OutputBuffer in use.  In use: the buffer, what it held when the cursor
\* was taken (prior), the cursor, the bytes appended since, and what the user
\* of the cursor takes them to be after the updates made (expect).
NoOut == [phase |-> "none", ob |-> Vec_new, prior |-> <<>>, cursor |-> 0,
          appended |-> <<>>, expect |-> <<>>, updates |-> 0]
\* The transmit side of rp2040_demo at start: the shared FIFO, the main
\* loop and the other context with the ScratchOutput each is building in
\* (at: "idle", "build", "extend"), the number of output calls begun, and what
\* is seen from outside: the frames built, in the order of their extend, with
\* whether they fitted (frames), and the bytes taken out of the FIFO (wire).
NoUsb == [txbuf |-> USB_TX_BUFFER,
          main |-> [at |-> "idle", scratch |-> ScratchOutput_new(SCRATCH_MAX_SIZE)],
          other |-> [at |-> "idle", scratch |-> ScratchOutput_new(SCRATCH_MAX_SIZE)],
          calls |-> 0, frames |-> <<>>, wire |-> <<>>]
\* No conversion made.  Made: the enumeration, the number i, what
\* TryFrom(i) gave and what From gave for that.
NoConversion == [called |-> FALSE, variants |-> <<>>, i |-> 0,
                 tried |-> [ok |-> FALSE, ident |-> <<>>], back |-> 0]
\* The static strings at the start of a build: the tracker, the strings the
\* macros met so far gave it (inserted), whether a shutdown message was
\* added, and the dictionary's static_string_id once it is final.
NoStrings == [t |-> StaticStringsTracker_new, inserted |-> <<>>, shutdown |-> FALSE,
              final |-> FALSE, static_string_id |-> BTreeMap_new]
\* A ScratchOutput<ScratchSize> as created: the buffer, the bytes passed to
\* output since the last reset (passed), the positions of them that an update
\* replaced (replaced), the number of calls made, and the last call with what
\* it returned.
NoScratch == [ob |-> Vec_new,
              passed |-> <<>>, replaced |-> {}, calls |-> 0,
              last |-> [op |-> "none", arg |-> <<>>, cursor |-> 0, ret |-> <<>>]]
\* No loop being followed.  Followed: which loop (of: "receive",
\* "parse_frame"), where it is (at: "loop", "done"), the machine and the
\* frame left, the number of iterations made, and for the last iteration (last)
\* and the one before (prev): is_synchronized and the bytes left before and
\* after it, and whether it left the loop.
NoIteration == [sync |-> TRUE, len |-> 0, sync_after |-> TRUE, len_after |-> 0,
                brk |-> FALSE]
NoIter == [of |-> "none", at |-> "none", m |-> Machine(TRUE, 16, <<>>), frame |-> <<>>,
           steps |-> 0, last |-> NoIteration, prev |-> NoIteration]
\* No stream being received.  Received in chunks: the stream, the framer
\* state the first call started from (sync0), the number of bytes given so far
\* (fed), whether a call left bytes unconsumed (held), the framer state and
\* the caller's buffer after the last call, and the bodies dispatched and the
\* frames sent by all the calls.
NoChunks == [on |-> FALSE, stream |-> <<>>, sync0 |-> TRUE, fed |-> 0, held |-> FALSE,
             sync |-> TRUE, ns |-> 16, input |-> <<>>, parsed |-> <<>>, sent |-> <<>>,
             panicked |-> FALSE]
\* No build scanning.  Scanning: the files read, the Processor, what
\* process_all returned (err), and how build ended (outcome: "none" while it
\* runs, "returned" without an output file, "written" with one, "failed" with
\* an error shown to the user).
NoScan == [phase |-> "none", program |-> <<>>, p |-> [queue |-> <<>>, errors |-> <<>>,
                                                    generate_cfg |-> 0, met |-> 0],
           err |-> "", outcome |-> "none"]
\* The last call on the FifoBuffer: its argument, and the buffer before it.
NoFifoCall == [op |-> "none", buf |-> <<>>, n |-> U32(0, 0),
               before |-> [buffer |-> <<>>, used |-> 0]]

NoCodec == [op |-> "none", ty |-> "i32", v |-> 0, bytes |-> <<>>, tail |-> <<>>,
            res |-> [ok |-> TRUE, v |-> 0, data |-> <<>>], enc |-> <<>>, wty |-> "", t |-> 0]

Init ==
    /\ is_synchronized = TRUE
    /\ next_sequence = MESSAGE_DEST
    /\ input = <<>>
    /\ sink = <<>>
    /\ rx = NoRx
    /\ tx = NoTx
    /\ codec = NoCodec
    /\ ident = IdentOf(Dictionary(MaxDict))
    /\ build = NoBuild
    /\ fifo = FifoBuffer_new
    /\ tree = NoTree
    /\ shared = NoShared
    /\ chunked = NoChunks
    /\ iter = NoIter
    /\ pad = NoScratch
    /\ scan = NoScan
    /\ tracker = NoStrings
    /\ enums = NoConversion
    /\ usb = NoUsb
    /\ out = NoOut
    /\ pc = "idle"

\* rcvbuf.extend(&recv[..n]); KLIPPER_TRANSPORT.receive(&mut rcvbuf, ())
Receive(it, clock) ==
    /\ pc = "idle"
    /\ \E data \in {input \o ItemBytes(it)} :
         \E r \in {receive(is_synchronized, next_sequence, data, clock)} :
           /\ is_synchronized' = r.m.sync
           /\ next_sequence' = r.m.ns
           /\ input' = r.input
           /\ sink' = r.m.sink
           /\ rx' = [given |-> it, sync |-> is_synchronized, ns |-> next_sequence,
                     rest |-> input, data |-> data, ev |-> r.m.ev, pops |-> r.pops]
           /\ pc' = IF r.m.panicked THEN "panicked" ELSE "returned"
    /\ UNCHANGED <<tx, codec, ident, build, fifo, out, usb, enums, tracker, scan, pad, iter, chunked,
                 shared, tree>>

\* A sender called from the main loop: TRANSPORT.encode_frame(closure), the
\* sink handing the closure the empty buffer ob.  A sender reads nothing but
\* next_sequence; it is called here between two frames of the input.
Send(writes, ob) ==
    /\ pc = "idle"
    /\ input = <<>>
    /\ \E m \in {encode_frame(Machine(is_synchronized, next_sequence, input),
                              ob, writes)} :
           /\ sink' = m.sink
           /\ tx' = [sent |-> TRUE, ns |-> next_sequence, writes |-> writes,
                     ob |-> ob, panicked |-> m.panicked]
           /\ pc' = IF m.panicked THEN "panicked" ELSE "returned"
    /\ UNCHANGED <<is_synchronized, next_sequence, input, rx, codec, ident, build, fifo, out, usb, enums,
                 tracker, scan, pad, iter, chunked, shared, tree>>

\* The loop comes round: the frames handed over have gone to the wire.  A
\* call that panicked does not return.
Loop ==
    /\ pc = "returned"
    /\ pc' = "idle"
    /\ sink' = <<>>
    /\ rx' = NoRx
    /\ tx' = NoTx
    /\ codec' = NoCodec
    /\ ident' = [ident EXCEPT !.last = NoCall,
                              !.walk = IF @.done THEN NoWalk ELSE @]
    /\ build' = NoBuild
    /\ fifo' = [fifo EXCEPT !.last = NoFifoCall]
    /\ enums' = NoConversion
    /\ UNCHANGED <<is_synchronized, next_sequence, input, out, usb, tracker, scan, pad, iter, chunked,
                 shared, tree>>

Next ==
    \/ \E it \in Items(next_sequence, input) : \E clock \in ClocksFor(it) : Receive(it, clock)
    \/ \E writes \in SendWrites, ob \in OutputBuffers : Send(writes, ob)
    \/ Loop

Spec == Init /\ [][Next]_vars

----------------------------------------------------------------------------
(* The VLQ codec on its own: encode_vlq_int and parse_vlq_int applied to   *)
(* integers and byte strings drawn from bounded sets.                      *)

I32_MAX == -(I32_MIN + 1)
MaxSmall == 130    \* every integer of -MaxSmall..MaxSmall is encoded
MaxDecodeLen == 3  \* byte strings of up to this many bytes are decoded

\* The first integers outside and the last inside the range of each `if` of
\* encode_vlq_int.
RangeEdges ==
    UNION {{-Pow2(S - 2) - 1, -Pow2(S - 2), 3 * Pow2(S - 2) - 1, 3 * Pow2(S - 2)} :
              S \in {7, 14, 21, 28}}

CodecValues == (-MaxSmall .. MaxSmall) \cup RangeEdges \cup {I32_MIN, I32_MAX}

\* What may follow an encoding in the input: nothing, a second encoding, the
\* start of one, bytes that are none.
CodecTails == {<<>>, <<0>>, <<255, 95>>, <<128>>, <<126, 255>>}

\* The 7-bit groups at the edges of the sign test (c & 0x60) == 0x60 and of
\* the one-byte range
GroupValues == {0, 1, 31, 32, 64, 95, 96, 127}

\* Byte strings in which every byte but the last has the high bit set.
ChainedStrings ==
    {[i \in 1..Len(g) |-> IF i < Len(g) THEN g[i] + 128 ELSE g[i]] :
        g \in SeqsUpTo(GroupValues, MaxDecodeLen) \ {<<>>}}

\* Byte strings that end in the middle of an integer.
CutStrings == {<<>>, <<128>>, <<255, 255>>}

\* <i32 as Writable>::write(v) into an empty Vec, then
\* <i32 as Readable>::read on the bytes written followed by tail.
Encode(v, tail) ==
    /\ pc = "idle"
    /\ pc' = "returned"
    /\ \E ob \in {encode_vlq_int(Vec_new, as_u32(v))} :
         codec' = [op |-> "encode", ty |-> "i32", v |-> v, bytes |-> ob.data, tail |-> tail,
                   res |-> read("i32", ob.data \o tail), enc |-> ob.data,
                   wty |-> "", t |-> 0]
    /\ UNCHANGED <<is_synchronized, next_sequence, input, sink, rx, tx, ident, build, fifo, out, usb, enums,
                 tracker, scan, pad, iter, chunked, shared, tree>>

\* <i32 as Readable>::read on the bytes s, then <i32 as Writable>::write of
\* the value read.
Decode(s) ==
    /\ pc = "idle"
    /\ pc' = "returned"
    /\ \E r \in {read("i32", s)} :
         codec' = [op |-> "decode", ty |-> "i32", v |-> r.v, bytes |-> s, tail |-> <<>>,
                   res |-> r,
                   enc |-> IF r.ok THEN encode_vlq_int(Vec_new, as_u32(r.v)).data
                           ELSE <<>>,
                   wty |-> "", t |-> 0]
    /\ UNCHANGED <<is_synchronized, next_sequence, input, sink, rx, tx, ident, build, fifo, out, usb, enums,
                 tracker, scan, pad, iter, chunked, shared, tree>>

\* The types with a Readable implementation; "bytes" is &[u8].
ReadableTypes == {"u8", "u16", "i16", "u32", "i32", "bool", "bytes"}

MaxReadLen == 2    \* integers of up to this many bytes are read as every type

\* What is behind the first integer of an input
ReadTails == {<<>>, <<10, 20>>, <<10, 20, 30>>}

\* The 7-bit groups of the integers read: lengths around those of the tails,
\* and the edges of the sign test.
ReadGroups == {0, 2, 3, 4, 96, 127}

\* Inputs of a read: one integer (for &[u8], the length) followed by nothing
\* or by some bytes, and inputs that end inside the integer.
ReadInputs ==
    {[i \in 1..Len(g) |-> IF i < Len(g) THEN g[i] + 128 ELSE g[i]] \o t :
        g \in SeqsUpTo(ReadGroups, MaxReadLen) \ {<<>>},
        t \in ReadTails}
    \cup CutStrings \cup {<<129, 128>>}

\* <ty as Readable>::read on the bytes s.
Read(ty, s) ==
    /\ pc = "idle"
    /\ pc' = "returned"
    /\ \E r \in {read(ty, s)} :
         codec' = [op |-> "read", ty |-> ty, v |-> 0, bytes |-> s, tail |-> <<>>,
                   res |-> r, enc |-> <<>>, wty |-> "", t |-> 0]
    /\ UNCHANGED <<is_synchronized, next_sequence, input, sink, rx, tx, ident, build, fifo, out, usb, enums,
                 tracker, scan, pad, iter, chunked, shared, tree>>

\* The message IDs assign_command_ids can give, and the first argument of
\* the message sent
SenderIds == 0..U8_MAX
SenderArgs == {<<>>, <<0>>, <<200>>}

\* A generated sender's closure run on the ScratchOutput of the sink; the
\* receiver then reads the ID with parse_vlq_int.  tail is what the
\* arguments are encoded as, enc what the ID is encoded as.
SenderId(id, args) ==
    /\ pc = "idle"
    /\ pc' = "returned"
    /\ \E ob \in {apply_writes(ScratchOutput_new(SCRATCH_MAX_SIZE), sender_writes(id, args))} :
         codec' = [op |-> "sender", ty |-> "u32", v |-> id, bytes |-> result(ob),
                   tail |-> apply_writes(Vec_new, Tail(sender_writes(id, args))).data,
                   res |-> read("u32", result(ob)),
                   enc |-> encode_vlq_int(Vec_new, id).data,
                   wty |-> "", t |-> 0]
    /\ UNCHANGED <<is_synchronized, next_sequence, input, sink, rx, tx, ident, build, fifo,
                   out, usb, enums, tracker, scan, pad, iter, chunked, shared, tree>>

\* Values of each type with a Writable implementation: the ends of its range
\* and the edges of the encoded lengths.
TypedValues(type) ==
    CASE type = "u8" -> {0, 95, 96, 127, 128, U8_MAX}
      [] type = "u16" -> {0, 96, 12287, 12288, 32767, 32768, 65535}
      [] type = "i16" -> {-32768, -4097, -4096, -33, -32, -1, 0, 96, 32767}
      [] type = "i32" -> {I32_MIN, -32769, -1, 0, 300, 40000, 65536 + 7, I32_MAX}
      [] type = "u32" -> {[hi |-> 0, lo |-> 0], [hi |-> 0, lo |-> 65535],
                          [hi |-> 1, lo |-> 300], [hi |-> 32767, lo |-> 65535],
                          [hi |-> 32768, lo |-> 0], [hi |-> 65535, lo |-> 65535]}
      [] type = "bool" -> BOOLEAN
WritableTypes == {"u8", "u16", "i16", "u32", "i32", "bool"}

\* What a value written as wty is read as: its own type, and for the 32-bit
\* types every integer type.
ReadAs(wty) ==
    IF wty \in {"u32", "i32"} THEN WritableTypes \ {"bool"} ELSE {wty}

\* <wty as Writable>::write(t) into an empty Vec, then <ty as Readable>::read
\* on the bytes written followed by tail.
Typed(wty, t, ty, tail) ==
    /\ pc = "idle"
    /\ pc' = "returned"
    /\ \E ob \in {write(wty, Vec_new, t)} :
         codec' = [op |-> "typed", ty |-> ty, v |-> write_as(wty, t), bytes |-> ob.data,
                   tail |-> tail, res |-> read(ty, ob.data \o tail), enc |-> ob.data,
                   wty |-> wty, t |-> t]
    /\ UNCHANGED <<is_synchronized, next_sequence, input, sink, rx, tx, ident, build, fifo,
                   out, usb, enums, tracker, scan, pad, iter, chunked, shared, tree>>

NextCodec ==
    \/ \E v \in CodecValues, tail \in CodecTails : Encode(v, tail)
    \/ \E wty \in WritableTypes : \E t \in TypedValues(wty), ty \in ReadAs(wty),
                                     tail \in {<<>>, <<255, 95>>} : Typed(wty, t, ty, tail)
    \/ \E id \in SenderIds, args \in SenderArgs : SenderId(id, args)
    \/ \E s \in ChainedStrings \cup CutStrings : Decode(s)
    \/ \E ty \in ReadableTypes, s \in ReadInputs : Read(ty, s)
    \/ Loop

SpecCodec == Init /\ [][NextCodec]_vars

----------------------------------------------------------------------------
(* The identify handler on its own: single calls with offsets and counts   *)
(* from the whole u32 range, and the host's walk through the dictionary    *)
(* in windows of a fixed length.                                           *)

MaxWindow == 50    \* the longest window whose response fits a frame for sure

\* Offsets and counts of single calls: around the dictionary lengths, and at
\* the top of the u32 range.
IdentifyOffsets ==
    {U32(0, k) : k \in {0, 2, 3, 4, 100, MaxDict - 1, MaxDict, MaxDict + 1}}
    \cup {U32(1, 0), U32(65535, 65530), U32(65535, 65535)}
IdentifyCounts ==
    {U32(0, n) : n \in {0, 1, 2, 40, MaxWindow + 10}}
    \cup {U32(0, 65535), U32(65535, 65535)}

\* Window lengths of a walk
WindowLens ==
    {U32(0, n) : n \in {1, 7, 40, MaxWindow, MaxWindow + 7}}
    \cup {U32(32768, 0), U32(65535, 65535)}

\* The host's reading of what a call sent: the one frame's body is the ID,
\* the offset, and the data with its length in front.
HostResponseOf(body, o, d) ==
    [ok |-> body[1] = ID_IDENTIFY_RESPONSE /\ o.ok /\ d.ok /\ d.data = <<>>,
     offset |-> o.v,
     data |-> IF d.ok THEN d.v ELSE <<>>]

HostResponseData(body, o) == HostResponseOf(body, o, read("bytes", o.data))

HostResponseBody(body) == HostResponseData(body, read("u32", Tail(body)))

HostResponse(m) ==
    IF m.panicked \/ Len(m.sink) # 1 THEN NoCall.resp
    ELSE HostResponseBody(SubSeq(m.sink[1], MESSAGE_HEADER_SIZE + 1,
                                 Len(m.sink[1]) - MESSAGE_TRAILER_SIZE))

InitIdentify ==
    /\ is_synchronized = TRUE
    /\ next_sequence = MESSAGE_DEST
    /\ input = <<>>
    /\ sink = <<>>
    /\ rx = NoRx
    /\ tx = NoTx
    /\ codec = NoCodec
    /\ \E len \in DictLens : ident = IdentOf(Dictionary(len))
    /\ build = NoBuild
    /\ fifo = FifoBuffer_new
    /\ tree = NoTree
    /\ shared = NoShared
    /\ chunked = NoChunks
    /\ iter = NoIter
    /\ pad = NoScratch
    /\ scan = NoScan
    /\ tracker = NoStrings
    /\ enums = NoConversion
    /\ usb = NoUsb
    /\ out = NoOut
    /\ pc = "idle"

\* One identify command reaching handle_identify, outside a walk.
Identify(offset, count, checks) ==
    /\ pc = "idle"
    /\ ~ident.walk.on
    /\ \E m \in {handle_identify(ident.DATA, offset, count, checks,
                                  Machine(is_synchronized, next_sequence, input))} :
         /\ sink' = m.sink
         /\ ident' = [ident EXCEPT !.last =
                         [called |-> TRUE, offset |-> offset, count |-> count,
                          checks |-> checks, panicked |-> m.panicked,
                          resp |-> HostResponse(m)]]
         /\ pc' = IF m.panicked THEN "panicked" ELSE "returned"
    /\ UNCHANGED <<is_synchronized, next_sequence, input, rx, tx, codec, build, fifo, out, usb, enums,
                 tracker, scan, pad, iter, chunked, shared, tree>>

\* What the host does with the response r to identify(k, len): it appends the
\* data and moves on by len, and is done when the data is empty.
WalkStep(w, len, r, panicked) ==
    [on |-> TRUE, len |-> len, k |-> u32_add(w.k, len, FALSE).v,
     got |-> w.got \o r.data, calls |-> w.calls + 1,
     done |-> ~panicked /\ r.ok /\ r.data = <<>>]

\* The next identify(k, len) of the host's walk, k = 0, len, 2*len, ...
IdentifyWalk(len, checks) ==
    /\ pc = "idle"
    /\ ident.walk.on => len = ident.walk.len
    /\ \E m \in {handle_identify(ident.DATA, ident.walk.k, len, checks,
                                  Machine(is_synchronized, next_sequence, input))} :
         /\ sink' = m.sink
         /\ ident' = [ident EXCEPT
                         !.last = [called |-> TRUE, offset |-> ident.walk.k,
                                   count |-> len, checks |-> checks,
                                   panicked |-> m.panicked, resp |-> HostResponse(m)],
                         !.walk = WalkStep(@, len, HostResponse(m), m.panicked)]
         /\ pc' = IF m.panicked THEN "panicked" ELSE "returned"
    /\ UNCHANGED <<is_synchronized, next_sequence, input, rx, tx, codec, build, fifo, out, usb, enums,
                 tracker, scan, pad, iter, chunked, shared, tree>>

NextIdentify ==
    \/ \E offset \in IdentifyOffsets, count \in IdentifyCounts, checks \in BOOLEAN :
          Identify(offset, count, checks)
    \/ \E len \in WindowLens, checks \in BOOLEAN : IdentifyWalk(len, checks)
    \/ Loop

SpecIdentify == InitIdentify /\ [][NextIdentify]_vars

----------------------------------------------------------------------------
(* The build: ConfigBuilder::build from assign_ids on, one message of the  *)
(* catalog per step.                                                       *)

MaxCatalog == 3    \* user messages of a small catalog

Command == Message("command", NONE)
Output == Message("output", NONE)
Reply(id) == Message("reply", id)

\* "identify" comes before "identify_response" in key order
Builtins == <<identify, identify_response>>

\* User messages: commands, outputs, and replies with an explicit id, one of
\* them the ID of identify.
UserMessages == {Command, Output, Reply(ID_IDENTIFY), Reply(ID_CLOCK)}

Repeat(m, n) == [i \in 1..n |-> m]

\* Small catalogs, the user's names before or after the built-in ones; and
\* catalogs that fill the ID space: 255 and 256 messages without explicit
\* IDs, 256 with a reply of ID 255 or 254, and replies on all of 2..255 with
\* one command.
Catalogs ==
    {q \o Builtins : q \in SeqsUpTo(UserMessages, MaxCatalog)}
    \cup {Builtins \o q : q \in SeqsUpTo(UserMessages, MaxCatalog)}
    \cup {Builtins \o Repeat(Command, n) : n \in {U8_MAX - 2, U8_MAX - 1}}
    \cup {<<Reply(e)>> \o Builtins \o Repeat(Command, U8_MAX - 2) :
             e \in {U8_MAX - 1, U8_MAX}}
    \cup {<<Command>> \o Builtins \o [i \in 1..(U8_MAX - 1) |-> Reply(i + 1)]}

\* build() reaches assign_ids with the catalog collected; the build script
\* runs with or without overflow checks.
Build(catalog, checks) ==
    /\ pc = "idle"
    /\ build.phase = "none"
    /\ build' = [NoBuild EXCEPT !.phase = "assign", !.given = catalog,
                                !.messages = catalog, !.i = 1,
                                !.used = used_ids(catalog), !.checks = checks]
    /\ pc' = "building"
    /\ UNCHANGED <<is_synchronized, next_sequence, input, sink, rx, tx, codec, ident, fifo, out, usb, enums,
                 tracker, scan, pad, iter, chunked, shared, tree>>

\* The build after assign_id returned r for message i.
Assigned(b, r) ==
    IF r.outcome = "ok"
    THEN [b EXCEPT !.messages[b.i].id = r.id, !.used = r.used,
                   !.next_id = r.next_id, !.wrapped = @ \/ r.wrapped, !.i = @ + 1,
                   !.assigned = Append(@, [pos |-> b.i, id |-> r.id]),
                   !.last = [cursor |-> b.next_id, used |-> b.used]]
    ELSE [b EXCEPT !.assign = IF r.outcome = "hang" THEN "hung" ELSE r.outcome,
                   !.phase = IF r.outcome = "hang" THEN "hung" ELSE "panicked",
                   !.wrapped = @ \/ r.wrapped]

\* One turn of the loop of lines 556-560, or its end.
AssignNext ==
    /\ pc = "building"
    /\ build.phase = "assign"
    /\ build' =
          IF build.i > Len(build.messages)
          THEN [build EXCEPT !.assign = "done", !.phase = "dispatcher", !.i = 1]
          ELSE IF build.messages[build.i].id # NONE
          THEN [build EXCEPT !.i = @ + 1]
          ELSE Assigned(build, assign_id(build.used, build.next_id, build.checks))
    /\ pc' = IF build'.phase = "panicked" THEN "panicked" ELSE pc
    /\ UNCHANGED <<is_synchronized, next_sequence, input, sink, rx, tx, codec, ident, fifo, out, usb, enums,
                 tracker, scan, pad, iter, chunked, shared, tree>>

\* One turn of the loop of write_message_dispatcher (lines 647-658), or its
\* end, after which the artifact is written.
DispatcherNext ==
    /\ pc = "building"
    /\ build.phase = "dispatcher"
    /\ build' =
          IF build.i > Len(build.messages)
          THEN [build EXCEPT !.phase = "emitted"]
          ELSE IF build.messages[build.i].id \in build.handlers
          THEN [build EXCEPT !.phase = "panicked"]
          ELSE [build EXCEPT
                   !.handlers = IF build.messages[build.i].kind = "command"
                                THEN @ \cup {build.messages[build.i].id} ELSE @,
                   !.i = @ + 1]
    /\ pc' = CASE build'.phase = "panicked" -> "panicked"
              [] build'.phase = "emitted" -> "returned"
              [] OTHER -> pc
    /\ UNCHANGED <<is_synchronized, next_sequence, input, sink, rx, tx, codec, ident, fifo, out, usb, enums,
                 tracker, scan, pad, iter, chunked, shared, tree>>

NextBuild ==
    \/ \E catalog \in Catalogs, checks \in BOOLEAN : Build(catalog, checks)
    \/ AssignNext
    \/ DispatcherNext
    \/ Loop

SpecBuild == Init /\ [][NextBuild]_vars

----------------------------------------------------------------------------
(* A FifoBuffer in use: bytes are appended with extend, or written into    *)
(* receive_buffer() and committed with advance, and taken off with pop.    *)

FifoBytes == {7, 9}
\* what a caller hands to extend: up to one byte more than the buffer holds
FifoChunks == SeqsUpTo(FifoBytes, BUF_SIZE - 1) \cup {[i \in 1..n |-> 7] : n \in {BUF_SIZE, BUF_SIZE + 1}}

FifoCall(op, buf, n) ==
    [op |-> op, buf |-> buf, n |-> n,
     before |-> [buffer |-> fifo.buffer, used |-> fifo.used]]

USIZE_MAX == U32(65535, 65535)

\* What a caller passes to advance after writing k bytes: their number, more
\* than the buffer holds, and the top of the usize range.
AdvanceCounts(k) ==
    {U32(0, k), U32(0, BUF_SIZE + 1), U32(65535, 65535 - BUF_SIZE), USIZE_MAX}

\* The bytes a user has put in and not taken out, after buf was put in
Put(buf) == fifo.stream \o buf

\* used + n is more than usize::MAX
PastMax(used, n) == n.hi = 65535 /\ n.lo + used > 65535

\* The calls are followed up to the first advance whose sum passes
\* usize::MAX.
InUse == pc = "idle" /\ ~fifo.passed

\* buffer.extend(buf); the user's bytes are in when they fit behind the
\* bytes that are in already
Extend(buf) ==
    /\ InUse
    /\ fifo' = [extend(fifo, buf) EXCEPT
                   !.last = FifoCall("extend", buf, U32(0, 0)),
                   !.stream = IF Len(Put(buf)) <= BUF_SIZE THEN Put(buf) ELSE @]
    /\ pc' = "returned"
    /\ UNCHANGED <<is_synchronized, next_sequence, input, sink, rx, tx, codec, ident, build, out, usb,
                 enums, tracker, scan, pad, iter, chunked, shared, tree>>

\* The caller writes buf into receive_buffer() and calls advance(n): the
\* user's bytes are the first n of receive_buffer(), or all of it.
Advance(buf, n, checks) ==
    /\ InUse
    /\ Len(buf) <= Len(receive_buffer(fifo))
    /\ \E w \in {[fifo EXCEPT !.buffer = copy_into(fifo, buf)]} :
         fifo' = [advance(w, n, checks) EXCEPT
                     !.last = FifoCall("advance", buf, n),
                     !.passed = @ \/ PastMax(w.used, n),
                     !.stream = @ \o Take(receive_buffer(w),
                                          u32_min(n, Len(receive_buffer(w))))]
    /\ pc' = IF fifo'.panicked THEN "panicked" ELSE "returned"
    /\ UNCHANGED <<is_synchronized, next_sequence, input, sink, rx, tx, codec, ident, build, out, usb,
                 enums, tracker, scan, pad, iter, chunked, shared, tree>>

\* buffer.pop(n)
Pop(n) ==
    /\ InUse
    /\ fifo' = [fifo_pop(fifo, n) EXCEPT
                   !.last = FifoCall("pop", <<>>, U32(0, n)),
                   !.stream = Drop(@, Min(n, Len(@)))]
    /\ pc' = "returned"
    /\ UNCHANGED <<is_synchronized, next_sequence, input, sink, rx, tx, codec, ident, build, out, usb,
                 enums, tracker, scan, pad, iter, chunked, shared, tree>>

NextFifo ==
    \/ \E buf \in FifoChunks : Extend(buf)
    \/ \E buf \in {<<>>, <<9>>} : \E n \in AdvanceCounts(Len(buf)), checks \in BOOLEAN :
          Advance(buf, n, checks)
    \/ \E n \in 0..(BUF_SIZE + 1) : Pop(n)
    \/ Loop

SpecFifo == Init /\ [][NextFifo]_vars

----------------------------------------------------------------------------
(* An OutputBuffer in use the way encode_frame uses it (transport.rs       *)
(* 161-168) on a buffer that may hold bytes already: a cursor is taken,    *)
(* bytes are appended, the byte at the cursor is updated, data_since is    *)
(* read.                                                                   *)

MaxAppended == 3   \* the bytes appended after the cursor was taken
PriorContents == {<<>>, <<1>>, <<1, 2>>}
AppendChunks == {<<>>, <<3>>, <<4, 5>>}
UpdateValues == {8, 9}

\* A buffer is made and prior is written to it.
NewBuffer(ob, prior) ==
    /\ pc = "idle"
    /\ out.phase = "none"
    /\ out' = [NoOut EXCEPT !.phase = "filled", !.ob = output(ob, prior),
                            !.prior = prior]
    /\ UNCHANGED <<is_synchronized, next_sequence, input, sink, rx, tx, codec, ident, build,
                   fifo, pc, usb, enums, tracker, scan, pad, iter, chunked, shared, tree>>

\* let cursor = output.cur_position()
CurPosition ==
    /\ out.phase = "filled"
    /\ out' = [out EXCEPT !.phase = "marked", !.cursor = cur_position(out.ob)]
    /\ UNCHANGED <<is_synchronized, next_sequence, input, sink, rx, tx, codec, ident, build,
                   fifo, pc, usb, enums, tracker, scan, pad, iter, chunked, shared, tree>>

\* output.output(buf)
OutputBytes(buf) ==
    /\ out.phase = "marked"
    /\ ~out.ob.panicked
    /\ Len(out.appended) + Len(buf) <= MaxAppended
    /\ out' = [out EXCEPT !.ob = output(@, buf), !.appended = @ \o buf,
                          !.expect = @ \o buf]
    /\ UNCHANGED <<is_synchronized, next_sequence, input, sink, rx, tx, codec, ident, build,
                   fifo, pc, usb, enums, tracker, scan, pad, iter, chunked, shared, tree>>

\* output.update(cursor, value); the user takes the first byte appended
\* since the cursor to be value now.
Update(value) ==
    /\ out.phase = "marked"
    /\ ~out.ob.panicked
    /\ out.updates < 2
    /\ out' = [out EXCEPT !.ob = update(@, out.cursor, value),
                          !.expect = IF @ = <<>> THEN @ ELSE <<value>> \o Tail(@),
                          !.updates = @ + 1]
    /\ UNCHANGED <<is_synchronized, next_sequence, input, sink, rx, tx, codec, ident, build,
                   fifo, pc, usb, enums, tracker, scan, pad, iter, chunked, shared, tree>>

NextCursor ==
    \/ \E ob \in OutputBuffers, prior \in PriorContents : NewBuffer(ob, prior)
    \/ CurPosition
    \/ \E buf \in AppendChunks : OutputBytes(buf)
    \/ \E value \in UpdateValues : Update(value)

SpecCursor == Init /\ [][NextCursor]_vars

----------------------------------------------------------------------------
(* The transmit side of rp2040_demo: receive in the main loop emits ACKs   *)
(* through BufferTransportOutput::output, a sender in another execution    *)
(* context goes through the same output, and the main loop drains the FIFO *)
(* with write_packets.  The steps of the two contexts interleave freely;   *)
(* what runs inside free(|cs| ..) is one step.                             *)

MaxCalls == 3      \* output calls begun in one run

\* Bodies of the frames of the other context
UsbWrites == {<<RawWrite(<<ID_CLOCK>>), VlqWrite(7)>>, <<RawWrite(<<ID_CLOCK>>)>>}

Built(who, scratch) ==
    [who |-> who, bytes |-> result(scratch),
     fits |-> Len(result(scratch)) <= USB_TX_SIZE - usb.txbuf.used]

\* receive takes a frame: next_sequence moves on when the frame carries it
\* (lines 111-115), and encode_acknak is entered (line 118).
MainReceive(fresh) ==
    /\ pc = "idle"
    /\ usb.main.at = "idle"
    /\ usb.calls < MaxCalls
    /\ next_sequence' = IF fresh THEN advance_sequence(next_sequence) ELSE next_sequence
    /\ usb' = [usb EXCEPT !.main.at = "build", !.calls = @ + 1]
    /\ UNCHANGED <<is_synchronized, input, sink, rx, tx, codec, ident, build, fifo, out, pc, enums, tracker,
                 scan, pad, iter, chunked, shared, tree>>

\* output, lines 14-16, for encode_acknak: the closure fills a new
\* ScratchOutput.
MainBuild ==
    /\ usb.main.at = "build"
    /\ usb' = [usb EXCEPT
                 !.main.at = "extend",
                 !.main.scratch = acknak_closure(ScratchOutput_new(SCRATCH_MAX_SIZE),
                                                 next_sequence)]
    /\ UNCHANGED <<is_synchronized, next_sequence, input, sink, rx, tx, codec, ident, build,
                   fifo, out, pc, enums, tracker, scan, pad, iter, chunked, shared, tree>>

\* output, line 17, in the main loop
MainExtend ==
    /\ usb.main.at = "extend"
    /\ usb' = [usb EXCEPT
                 !.main.at = "idle",
                 !.txbuf = usb_extend(@, usb.main.scratch),
                 !.frames = Append(@, Built("main", usb.main.scratch))]
    /\ UNCHANGED <<is_synchronized, next_sequence, input, sink, rx, tx, codec, ident, build,
                   fifo, out, pc, enums, tracker, scan, pad, iter, chunked, shared, tree>>

\* A sender is called in the other context: encode_frame enters output.
OtherSend ==
    /\ pc = "idle"
    /\ usb.other.at = "idle"
    /\ usb.calls < MaxCalls
    /\ usb' = [usb EXCEPT !.other.at = "build", !.calls = @ + 1]
    /\ UNCHANGED <<is_synchronized, next_sequence, input, sink, rx, tx, codec, ident, build,
                   fifo, out, pc, enums, tracker, scan, pad, iter, chunked, shared, tree>>

\* output, lines 14-16, for encode_frame
OtherBuild(writes) ==
    /\ usb.other.at = "build"
    /\ usb' = [usb EXCEPT
                 !.other.at = "extend",
                 !.other.scratch = frame_closure(ScratchOutput_new(SCRATCH_MAX_SIZE),
                                                 next_sequence, writes)]
    /\ UNCHANGED <<is_synchronized, next_sequence, input, sink, rx, tx, codec, ident, build,
                   fifo, out, pc, enums, tracker, scan, pad, iter, chunked, shared, tree>>

\* output, line 17, in the other context
OtherExtend ==
    /\ usb.other.at = "extend"
    /\ usb' = [usb EXCEPT
                 !.other.at = "idle",
                 !.txbuf = usb_extend(@, usb.other.scratch),
                 !.frames = Append(@, Built("other", usb.other.scratch))]
    /\ UNCHANGED <<is_synchronized, next_sequence, input, sink, rx, tx, codec, ident, build,
                   fifo, out, pc, enums, tracker, scan, pad, iter, chunked, shared, tree>>

\* The write side of the main loop (main.rs 91-94): write_packets inside
\* free, serial.write_packet taking n of the bytes offered (Ok(n), or an
\* error with n = all of them); WouldBlock and Ok(0) take none.
WritePackets(n) ==
    /\ usb.main.at = "idle"
    /\ usb.txbuf.used > 0
    /\ n <= Len(usb_write(usb.txbuf))
    /\ usb' = [usb EXCEPT !.txbuf = fifo_pop(@, n),
                          !.wire = @ \o Take(usb_write(usb.txbuf), n)]
    /\ UNCHANGED <<is_synchronized, next_sequence, input, sink, rx, tx, codec, ident, build,
                   fifo, out, pc, enums, tracker, scan, pad, iter, chunked, shared, tree>>

NextUsb ==
    \/ \E fresh \in BOOLEAN : MainReceive(fresh)
    \/ MainBuild
    \/ MainExtend
    \/ OtherSend
    \/ \E writes \in UsbWrites : OtherBuild(writes)
    \/ OtherExtend
    \/ \E n \in {0, 1, 5, 6, USB_TX_SIZE} : WritePackets(n)

SpecUsb == Init /\ [][NextUsb]_vars

----------------------------------------------------------------------------
(* The loop of testjig/src/main.rs 119-129 for any enumeration:            *)
(* i.try_into(), then p.into().                                            *)

MaxVariants == 3   \* the variants of an enumeration

\* Single variants and ranges whose identifiers start at 0 and elsewhere
EnumVariants ==
    {Single("AdcTemperature"), Single("B"), Range("PA", 0, 2), Range("PB", 1, 2),
     Range("PC", 3, 3)}

\* The enumerations of distinct variants
Enumerations ==
    {e \in SeqsUpTo(EnumVariants, MaxVariants) :
        e # <<>> /\ \A a, b \in 1..Len(e) : a # b => e[a] # e[b]}

Convert(variants, i) ==
    /\ pc = "idle"
    /\ pc' = "returned"
    /\ \E p \in {try_from(variants, i)} :
         enums' = [called |-> TRUE, variants |-> variants, i |-> i, tried |-> p,
                   back |-> IF p.ok THEN from(variants, p.ident) ELSE 0]
    /\ UNCHANGED <<is_synchronized, next_sequence, input, sink, rx, tx, codec, ident, build,
                   fifo, out, usb, tracker, scan, pad, iter, chunked, shared, tree>>

NextEnum ==
    \/ \E variants \in Enumerations : \E i \in 0..max_variant(variants) :
          Convert(variants, i)
    \/ Loop

SpecEnum == Init /\ [][NextEnum]_vars

----------------------------------------------------------------------------
(* The static strings of a build: the visitor meets klipper_static_string! *)
(* and klipper_shutdown! invocations in some order, then                   *)
(* finalize_dictionary runs.                                               *)

MaxInserts == 4    \* the invocations met in one build
StringLiterals == {"a", "b", "c"}

\* A macro may be met while the program is scanned.
Scanning == pc = "idle" /\ ~tracker.final /\ Len(tracker.inserted) < MaxInserts

\* Processor::process_static_string
ProcessStaticString(ss) ==
    /\ Scanning
    /\ tracker' = [tracker EXCEPT !.t = insert(@, ss), !.inserted = Append(@, ss)]
    /\ UNCHANGED <<is_synchronized, next_sequence, input, sink, rx, tx, codec, ident, build,
                   fifo, out, usb, enums, pc, scan, pad, iter, chunked, shared, tree>>

\* Processor::process_klipper_shutdown: the message's string is inserted and
\* the shutdown reply is added if it is not there.
ProcessKlipperShutdown(ss) ==
    /\ Scanning
    /\ tracker' = [tracker EXCEPT !.t = insert(@, ss), !.inserted = Append(@, ss),
                                  !.shutdown = TRUE]
    /\ UNCHANGED <<is_synchronized, next_sequence, input, sink, rx, tx, codec, ident, build,
                   fifo, out, usb, enums, pc, scan, pad, iter, chunked, shared, tree>>

\* Processor::finalize_dictionary
FinalizeDictionary ==
    /\ pc = "idle"
    /\ ~tracker.final
    /\ tracker' = [tracker EXCEPT !.final = TRUE,
                                  !.static_string_id = static_string_enum(tracker.t)]
    /\ UNCHANGED <<is_synchronized, next_sequence, input, sink, rx, tx, codec, ident, build,
                   fifo, out, usb, enums, pc, scan, pad, iter, chunked, shared, tree>>

NextStrings ==
    \/ \E ss \in StringLiterals : ProcessStaticString(ss)
    \/ \E ss \in StringLiterals : ProcessKlipperShutdown(ss)
    \/ FinalizeDictionary

SpecStrings == Init /\ [][NextStrings]_vars

----------------------------------------------------------------------------
(* The loops of Transport::receive and Transport::parse_frame, one         *)
(* iteration per step.                                                     *)

\* What receive is called on: the bytes of every item the host may send.
LoopInputs == {ItemBytes(it) : it \in Items(MESSAGE_DEST, <<>>)}
\* What parse_frame is called on
LoopFrames == Bodies \cup {UnitBytes(U) : U \in UnitLists \cup WideLists}
LoopClock == 300

\* receive is entered: `let mut data = input.data()`
ReceiveEnter(sync, data) ==
    /\ pc = "idle"
    /\ iter.of = "none"
    /\ iter' = [NoIter EXCEPT !.of = "receive", !.at = "loop",
                              !.m = Machine(sync, MESSAGE_DEST, data)]
    /\ UNCHANGED <<is_synchronized, next_sequence, input, sink, rx, tx, codec, ident, build,
                   fifo, pc, out, usb, enums, tracker, scan, pad, chunked, shared, tree>>

\* One iteration of `while !data.is_empty()`
ReceiveIteration ==
    /\ iter.of = "receive" /\ iter.at = "loop"
    /\ iter.m.data # <<>> /\ ~iter.m.panicked
    /\ \E r \in {receive_step(iter.m, LoopClock)} :
         iter' = [iter EXCEPT !.m = r.m, !.steps = @ + 1, !.prev = iter.last,
                              !.at = IF r.brk THEN "done" ELSE "loop",
                              !.last = [sync |-> iter.m.sync, len |-> Len(iter.m.data),
                                        sync_after |-> r.m.sync,
                                        len_after |-> Len(r.m.data), brk |-> r.brk]]
    /\ UNCHANGED <<is_synchronized, next_sequence, input, sink, rx, tx, codec, ident, build,
                   fifo, pc, out, usb, enums, tracker, scan, pad, chunked, shared, tree>>

\* The loop condition fails (or a handler's sender panicked).
ReceiveLeave ==
    /\ iter.of = "receive" /\ iter.at = "loop"
    /\ (iter.m.data = <<>> \/ iter.m.panicked)
    /\ iter' = [iter EXCEPT !.at = "done"]
    /\ UNCHANGED <<is_synchronized, next_sequence, input, sink, rx, tx, codec, ident, build,
                   fifo, pc, out, usb, enums, tracker, scan, pad, chunked, shared, tree>>

\* parse_frame is entered with the body of a frame.
ParseEnter(frame) ==
    /\ pc = "idle"
    /\ iter.of = "none"
    /\ iter' = [NoIter EXCEPT !.of = "parse_frame", !.at = "loop", !.frame = frame]
    /\ UNCHANGED <<is_synchronized, next_sequence, input, sink, rx, tx, codec, ident, build,
                   fifo, pc, out, usb, enums, tracker, scan, pad, chunked, shared, tree>>

\* One iteration of `while !frame.is_empty()`
ParseIteration ==
    /\ iter.of = "parse_frame" /\ iter.at = "loop"
    /\ iter.frame # <<>> /\ ~iter.m.panicked
    /\ \E r \in {parse_frame_step(iter.frame, iter.m, LoopClock)} :
         iter' = [iter EXCEPT !.m = r.m, !.frame = r.frame, !.steps = @ + 1,
                              !.prev = iter.last,
                              !.at = IF r.stop THEN "done" ELSE "loop",
                              !.last = [sync |-> TRUE, len |-> Len(iter.frame),
                                        sync_after |-> TRUE,
                                        len_after |-> Len(r.frame), brk |-> r.stop]]
    /\ UNCHANGED <<is_synchronized, next_sequence, input, sink, rx, tx, codec, ident, build,
                   fifo, pc, out, usb, enums, tracker, scan, pad, chunked, shared, tree>>

ParseLeave ==
    /\ iter.of = "parse_frame" /\ iter.at = "loop"
    /\ (iter.frame = <<>> \/ iter.m.panicked)
    /\ iter' = [iter EXCEPT !.at = "done"]
    /\ UNCHANGED <<is_synchronized, next_sequence, input, sink, rx, tx, codec, ident, build,
                   fifo, pc, out, usb, enums, tracker, scan, pad, chunked, shared, tree>>

NextLoops ==
    \/ \E sync \in BOOLEAN, data \in LoopInputs : ReceiveEnter(sync, data)
    \/ ReceiveIteration
    \/ ReceiveLeave
    \/ \E frame \in LoopFrames : ParseEnter(frame)
    \/ ParseIteration
    \/ ParseLeave

SpecLoops == Init /\ [][NextLoops]_vars

----------------------------------------------------------------------------
(* The caller's loop of rp2040_demo/src/main.rs and testjig/src/main.rs on *)
(* a byte stream that arrives in chunks: each chunk is appended to what    *)
(* the last call left, and receive is called.                              *)

MaxChunk == 3      \* the chunks are of 1..MaxChunk bytes, or the rest of the stream

RECURSIVE Select(_, _)
\* The events of the trace ev that are of kind e: their bytes, in order.
Select(ev, e) ==
    IF ev = <<>> THEN <<>>
    ELSE (IF Head(ev).e = e THEN <<Head(ev).bytes>> ELSE <<>>) \o Select(Tail(ev), e)

\* A stream starts to arrive at a framer in state sync.
ChunkStart(stream, sync) ==
    /\ pc = "idle"
    /\ ~chunked.on
    /\ chunked' = [NoChunks EXCEPT !.on = TRUE, !.stream = stream, !.sync0 = sync,
                                   !.sync = sync, !.ns = MESSAGE_DEST]
    /\ UNCHANGED <<is_synchronized, next_sequence, input, sink, rx, tx, codec, ident, build,
                   fifo, pc, out, usb, enums, tracker, scan, pad, iter, shared, tree>>

\* The next n bytes arrive: rcvbuf.extend(&recv[..n]); receive(&mut rcvbuf, ..)
ChunkReceive(n) ==
    /\ chunked.on
    /\ ~chunked.panicked
    /\ n >= 1
    /\ chunked.fed + n <= Len(chunked.stream)
    /\ \E r \in {receive(chunked.sync, chunked.ns,
                          chunked.input
                          \o SubSeq(chunked.stream, chunked.fed + 1, chunked.fed + n),
                          LoopClock)} :
         chunked' = [chunked EXCEPT !.fed = @ + n, !.held = @ \/ r.input # <<>>,
                                    !.sync = r.m.sync, !.ns = r.m.ns,
                                    !.input = r.input,
                                    !.parsed = @ \o Select(r.m.ev, "parse"),
                                    !.sent = @ \o r.m.sink,
                                    !.panicked = r.m.panicked]
    /\ UNCHANGED <<is_synchronized, next_sequence, input, sink, rx, tx, codec, ident, build,
                   fifo, pc, out, usb, enums, tracker, scan, pad, iter, shared, tree>>

\* All that is left of the stream arrives at once.
ChunkRest == ChunkReceive(Len(chunked.stream) - chunked.fed)

NextChunks ==
    \/ \E stream \in LoopInputs, sync \in BOOLEAN : ChunkStart(stream, sync)
    \/ \E n \in 1..MaxChunk : ChunkReceive(n)
    \/ ChunkRest

SpecChunks == Init /\ [][NextChunks]_vars

----------------------------------------------------------------------------
(* A sender on one execution context and receive on another, on the sinks  *)
(* of rp2040_demo and esp32c3_demo: BufferTransportOutput::output runs the *)
(* closure on a ScratchOutput of its own and enters the critical section   *)
(* only for USB_TX_BUFFER.extend.  The steps of a context are the atomic   *)
(* load of next_sequence in its closure (the rest of the closure touches   *)
(* the context's own scratch buffer only), the atomic store of receive,    *)
(* and the critical section.                                               *)

MaxSharedFrames == 4    \* frames built by the two contexts together

\* The bodies the sender sends: clock replies.
SenderBodies == {<<RawWrite(<<ID_CLOCK>>), VlqWrite(c)>> : c \in {0, LoopClock}}

\* The frames built so far, appended or not
SharedBuilt ==
    Len(shared.buffer) + (IF shared.sender.at = "built" THEN 1 ELSE 0)
                       + (IF shared.receiver.at = "idle" THEN 0 ELSE 1)

SharedStart(ns) ==
    /\ pc = "idle"
    /\ ~shared.on
    /\ shared' = [NoShared EXCEPT !.on = TRUE, !.ns0 = ns, !.ns = ns]
    /\ UNCHANGED <<is_synchronized, next_sequence, input, sink, rx, tx, codec, ident, build,
                   fifo, pc, out, usb, enums, tracker, scan, pad, iter, chunked, tree>>

\* The sender's encode_frame up to the critical section: the scratch buffer
\* is made, the closure loads next_sequence and builds the frame.
SenderBuild(f) ==
    /\ shared.on
    /\ shared.sender.at = "idle"
    /\ SharedBuilt < MaxSharedFrames
    /\ shared' = [shared EXCEPT !.sender =
                      [at |-> "built",
                       ob |-> frame_closure(ScratchOutput_new(SCRATCH_MAX_SIZE), shared.ns, f),
                       stamp |-> shared.stores]]
    /\ UNCHANGED <<is_synchronized, next_sequence, input, sink, rx, tx, codec, ident, build,
                   fifo, pc, out, usb, enums, tracker, scan, pad, iter, chunked, tree>>

\* free(|cs| USB_TX_BUFFER.borrow(cs).borrow_mut().extend(output)) of the
\* sender
SenderAppend ==
    /\ shared.sender.at = "built"
    /\ shared' = [shared EXCEPT
                      !.sender.at = "idle",
                      !.buffer = Append(@, [bytes |-> result(shared.sender.ob),
                                            stamp |-> shared.sender.stamp,
                                            by |-> "sender"])]
    /\ UNCHANGED <<is_synchronized, next_sequence, input, sink, rx, tx, codec, ident, build,
                   fifo, pc, out, usb, enums, tracker, scan, pad, iter, chunked, tree>>

\* receive, lines 111-117, for a well-formed frame without commands: one
\* that carries next_sequence (fresh) makes receive store the advanced
\* value, a stale one does not; parse_frame has nothing to dispatch.
ReceiverStore(fresh) ==
    /\ shared.on
    /\ shared.receiver.at = "idle"
    /\ SharedBuilt < MaxSharedFrames
    /\ shared' = [shared EXCEPT
                      !.ns = IF fresh THEN advance_sequence(@) ELSE @,
                      !.stores = IF fresh THEN @ + 1 ELSE @,
                      !.receiver.at = "parsed"]
    /\ UNCHANGED <<is_synchronized, next_sequence, input, sink, rx, tx, codec, ident, build,
                   fifo, pc, out, usb, enums, tracker, scan, pad, iter, chunked, tree>>

\* encode_acknak up to the critical section
ReceiverBuild ==
    /\ shared.receiver.at = "parsed"
    /\ shared' = [shared EXCEPT !.receiver =
                      [at |-> "built",
                       ob |-> acknak_closure(ScratchOutput_new(SCRATCH_MAX_SIZE), shared.ns),
                       stamp |-> shared.stores]]
    /\ UNCHANGED <<is_synchronized, next_sequence, input, sink, rx, tx, codec, ident, build,
                   fifo, pc, out, usb, enums, tracker, scan, pad, iter, chunked, tree>>

\* The critical section of the receiver's encode_acknak
ReceiverAppend ==
    /\ shared.receiver.at = "built"
    /\ shared' = [shared EXCEPT
                      !.receiver.at = "idle",
                      !.buffer = Append(@, [bytes |-> result(shared.receiver.ob),
                                            stamp |-> shared.receiver.stamp,
                                            by |-> "receiver"])]
    /\ UNCHANGED <<is_synchronized, next_sequence, input, sink, rx, tx, codec, ident, build,
                   fifo, pc, out, usb, enums, tracker, scan, pad, iter, chunked, tree>>

NextShared ==
    \/ \E ns \in MESSAGE_DEST..(MESSAGE_DEST + MESSAGE_SEQ_MASK) : SharedStart(ns)
    \/ \E f \in SenderBodies : SenderBuild(f)
    \/ SenderAppend
    \/ \E fresh \in BOOLEAN : ReceiverStore(fresh)
    \/ ReceiverBuild
    \/ ReceiverAppend

SpecShared == Init /\ [][NextShared]_vars

----------------------------------------------------------------------------
(* A ScratchOutput under any sequence of output, update, data_since and    *)
(* reset calls.                                                            *)

ScratchSize == 3       \* MAX_SIZE of the ScratchOutput
MaxScratchCalls == 4   \* calls made on it
ScratchChunks == {<<>>, <<1>>, <<2, 3>>, <<4, 5, 6, 7>>}
ScratchCursors == 0..(ScratchSize + 1)

ScratchLive ==
    /\ pc = "idle"
    /\ pad.ob.max = ScratchSize
    /\ ~pad.ob.panicked
    /\ pad.calls < MaxScratchCalls

\* output.output(buf)
ScratchOutput(buf) ==
    /\ ScratchLive
    /\ pad' = [pad EXCEPT !.ob = output(@, buf), !.passed = @ \o buf,
                                  !.calls = @ + 1,
                                  !.last = [op |-> "output", arg |-> buf, cursor |-> 0,
                                            ret |-> <<>>]]
    /\ UNCHANGED <<is_synchronized, next_sequence, input, sink, rx, tx, codec, ident, build,
                   fifo, pc, out, usb, enums, tracker, scan, iter, chunked, shared, tree>>

\* output.update(cursor, value)
ScratchUpdate(cursor, value) ==
    /\ ScratchLive
    /\ pad' = [pad EXCEPT !.ob = update(@, cursor, value),
                                  !.replaced = IF cursor < Len(pad.ob.data)
                                               THEN @ \cup {cursor + 1} ELSE @,
                                  !.calls = @ + 1,
                                  !.last = [op |-> "update", arg |-> <<value>>,
                                            cursor |-> cursor, ret |-> <<>>]]
    /\ UNCHANGED <<is_synchronized, next_sequence, input, sink, rx, tx, codec, ident, build,
                   fifo, pc, out, usb, enums, tracker, scan, iter, chunked, shared, tree>>

\* output.data_since(cursor)
ScratchDataSince(cursor) ==
    /\ ScratchLive
    /\ pad' = [pad EXCEPT !.calls = @ + 1,
                                  !.last = [op |-> "data_since", arg |-> <<>>,
                                            cursor |-> cursor,
                                            ret |-> data_since(pad.ob, cursor)]]
    /\ UNCHANGED <<is_synchronized, next_sequence, input, sink, rx, tx, codec, ident, build,
                   fifo, pc, out, usb, enums, tracker, scan, iter, chunked, shared, tree>>

\* output.reset()
ScratchReset ==
    /\ ScratchLive
    /\ pad' = [pad EXCEPT !.ob = reset(@), !.passed = <<>>, !.replaced = {},
                                  !.calls = @ + 1,
                                  !.last = [op |-> "reset", arg |-> <<>>, cursor |-> 0,
                                            ret |-> <<>>]]
    /\ UNCHANGED <<is_synchronized, next_sequence, input, sink, rx, tx, codec, ident, build,
                   fifo, pc, out, usb, enums, tracker, scan, iter, chunked, shared, tree>>

\* let mut output = ScratchOutput::<ScratchSize>::new()
ScratchNew ==
    /\ pc = "idle"
    /\ pad.ob.max # ScratchSize
    /\ pad' = [NoScratch EXCEPT !.ob = ScratchOutput_new(ScratchSize)]
    /\ UNCHANGED <<is_synchronized, next_sequence, input, sink, rx, tx, codec, ident, build,
                   fifo, pc, out, usb, enums, tracker, scan, iter, chunked, shared, tree>>

NextScratch ==
    \/ ScratchNew
    \/ \E buf \in ScratchChunks : ScratchOutput(buf)
    \/ \E cursor \in ScratchCursors, value \in {8, 9} : ScratchUpdate(cursor, value)
    \/ \E cursor \in ScratchCursors : ScratchDataSince(cursor)
    \/ ScratchReset

SpecScratch == Init /\ [][NextScratch]_vars

----------------------------------------------------------------------------
(* ConfigBuilder::build up to the writing of the output file: process_all  *)
(* one file per step, then the end of build.                               *)

MaxFiles == 2      \* the files of a program
MaxMacros == 3     \* the macro invocations of a file
MacroKinds == {"generate", "unparsed", "plain"}
Files == SeqsUpTo(MacroKinds, MaxMacros)

\* build() is called on a program of n files.
ScanStart(n) ==
    /\ pc = "idle"
    /\ scan.phase = "none"
    /\ scan' = [NoScan EXCEPT !.phase = "scanning",
                              !.p = Processor_new([k \in 1..n |-> k])]
    /\ UNCHANGED <<is_synchronized, next_sequence, input, sink, rx, tx, codec, ident, build,
                   fifo, out, usb, enums, tracker, pc, pad, iter, chunked, shared, tree>>

\* process_all: `self.process_one(next)?` for the next task, which reads ast
ProcessOne(ast) ==
    /\ scan.phase = "scanning"
    /\ scan.p.queue # <<>>
    /\ \E r \in {process_one(scan.p, ast)} :
         scan' = [scan EXCEPT !.p = r.p, !.err = r.err,
                              !.program = Append(@, ast),
                              !.phase = IF r.err # "" THEN "scanned" ELSE @]
    /\ UNCHANGED <<is_synchronized, next_sequence, input, sink, rx, tx, codec, ident, build,
                   fifo, out, usb, enums, tracker, pc, pad, iter, chunked, shared, tree>>

\* process_all returns Ok(()) when the queue is empty.
ProcessAllOk ==
    /\ scan.phase = "scanning"
    /\ scan.p.queue = <<>>
    /\ scan' = [scan EXCEPT !.phase = "scanned"]
    /\ UNCHANGED <<is_synchronized, next_sequence, input, sink, rx, tx, codec, ident, build,
                   fifo, out, usb, enums, tracker, pc, pad, iter, chunked, shared, tree>>

\* build, lines 134-158
BuildEnd ==
    /\ scan.phase = "scanned"
    /\ scan' = [scan EXCEPT !.phase = "ended", !.outcome = build_end(scan.err)]
    /\ UNCHANGED <<is_synchronized, next_sequence, input, sink, rx, tx, codec, ident, build,
                   fifo, out, usb, enums, tracker, pc, pad, iter, chunked, shared, tree>>

NextScan ==
    \/ \E n \in 1..MaxFiles : ScanStart(n)
    \/ \E ast \in Files : ProcessOne(ast)
    \/ ProcessAllOk
    \/ BuildEnd

SpecScan == Init /\ [][NextScan]_vars

----------------------------------------------------------------------------
(* process_all over a tree of source files.  A path is the directory, as   *)
(* the sequence of its components below the directory of the entry file,   *)
(* and the stem of the file name ("mod" for mod.rs); a file is the set of  *)
(* the out-of-line `mod name;` items in it that are not disabled, visited  *)
(* in the order ModOrder.  A Task carries, besides path and module_path,   *)
(* the files whose declarations led to it (via), which the code does not   *)
(* keep.  The files parse and their macros raise no error.                 *)

MaxTreeFiles == 3      \* the files besides the entry file
MaxWalkSteps == 4      \* the calls of process_one

ModOrder == <<"a", "b", "_anchor_config">>
FileNames == {"a", "b"}

Path(dir, stem) == [dir |-> dir, stem |-> stem]
EntryFile == Path(<<>>, "main")
TreeFiles ==
    {Path(dir, stem) : dir \in {<<>>}, stem \in FileNames}
    \cup {Path(<<d>>, stem) : d \in FileNames, stem \in FileNames \cup {"mod"}}

Task(path, module_path, via) == [path |-> path, module_path |-> module_path, via |-> via]

\* Lines 350-356: the two candidates below base that exist in fs
candidates(fs, base, name) ==
    SelectSeq(<<Path(base, name), Path(base \o <<name>>, "mod")>>, LAMBDA c : c \in fs)

\* Lines 358-371: the match on candidates.len() and the push_back
queue_candidate(p, found, module_path) ==
    IF Len(found) # 1 THEN [p EXCEPT !.panicked = TRUE]
    ELSE [p EXCEPT !.queue = Append(@, Task(found[1], module_path,
                                            p.via \o <<p.current_file>>))]

\* Processor::queue_submodule; base is the parent of current_file.
queue_submodule(p, fs, name) ==
    IF p.panicked THEN p
    ELSE IF p.current_module \o <<name>> = <<"_anchor_config">> THEN p
    ELSE queue_candidate(p, candidates(fs, p.current_file.dir, name),
                         p.current_module \o <<name>>)

RECURSIVE visit_item_mods(_, _, _)
\* Visit::visit_item_mod for the out-of-line modules of a file, in order
visit_item_mods(p, fs, names) ==
    IF names = <<>> THEN p
    ELSE visit_item_mods(queue_submodule(p, fs, Head(names)), fs, Tail(names))

\* process_all, lines 317-318, and process_one for the task at the front,
\* the file holding the declarations decls
walk_one(p, fs, decls) ==
    visit_item_mods([p EXCEPT !.queue = Tail(@),
                              !.current_file = Head(p.queue).path,
                              !.current_module = Head(p.queue).module_path,
                              !.via = Head(p.queue).via],
                    fs, SelectSeq(ModOrder, LAMBDA n : n \in decls))

\* build() with one entry, on a source tree holding the files fs
WalkStart(fs) ==
    /\ pc = "idle"
    /\ tree.phase = "none"
    /\ Cardinality(fs) <= MaxTreeFiles
    /\ tree' = [NoTree EXCEPT !.phase = "walking", !.fs = fs \cup {EntryFile},
                              !.p.queue = <<Task(EntryFile, <<>>, <<>>)>>]
    /\ UNCHANGED <<is_synchronized, next_sequence, input, sink, rx, tx, codec, ident, build,
                   fifo, out, usb, enums, tracker, scan, pc, pad, iter, chunked, shared>>

\* One turn of the loop of process_all; a file read again holds what it
\* held before.
WalkOne(decls) ==
    /\ tree.phase = "walking"
    /\ tree.p.queue # <<>>
    /\ tree.steps < MaxWalkSteps
    /\ \A c \in tree.contents : c.path = Head(tree.p.queue).path => c.decls = decls
    /\ \E r \in {walk_one(tree.p, tree.fs, decls)} :
         tree' = [tree EXCEPT !.p = r, !.steps = @ + 1,
                              !.contents = @ \cup {[path |-> Head(tree.p.queue).path,
                                                    decls |-> decls]},
                              !.phase = IF r.panicked THEN "panicked" ELSE @]
    /\ UNCHANGED <<is_synchronized, next_sequence, input, sink, rx, tx, codec, ident, build,
                   fifo, out, usb, enums, tracker, scan, pc, pad, iter, chunked, shared>>

\* process_all returns Ok(()) when the queue is empty.
WalkDone ==
    /\ tree.phase = "walking"
    /\ tree.p.queue = <<>>
    /\ tree' = [tree EXCEPT !.phase = "done"]
    /\ UNCHANGED <<is_synchronized, next_sequence, input, sink, rx, tx, codec, ident, build,
                   fifo, out, usb, enums, tracker, scan, pc, pad, iter, chunked, shared>>

NextWalk ==
    \/ \E fs \in SUBSET TreeFiles : WalkStart(fs)
    \/ \E decls \in SUBSET {ModOrder[k] : k \in 1..Len(ModOrder)} : WalkOne(decls)
    \/ WalkDone

SpecWalk == Init /\ [][NextWalk]_vars

----------------------------------------------------------------------------
(* Properties.  The trace of a receive call is rx.ev; the state after the  *)
(* call is the state in which pc = "returned".                             *)

\* The indices of the events of kind e in the trace of the receive call.
EventsOf(e) == {i \in 1..Len(rx.ev) : rx.ev[i].e = e}

\* The ACK frame for sequence byte ns, as the protocol defines it.
AckFrame(ns) == WithTrailer(<<MESSAGE_LENGTH_MIN, ns>>, crc16(<<MESSAGE_LENGTH_MIN, ns>>))

\* The sequence byte after S in the cycle 0x10 .. 0x1F.
SeqAfter(S) == IF S = 31 THEN 16 ELSE S + 1

\* A receive call has returned.
Received == pc = "returned" /\ rx.given.kind # "none"

\* The receive call was given one well-formed frame, at the front of the
\* input of a Synchronized framer.
GivenFrame ==
    /\ pc = "returned"
    /\ rx.given.kind = "frame"
    /\ rx.given.fault = ""
    /\ rx.sync
    /\ rx.rest = <<>>

\* C1: a well-formed frame [|B|+5, S, B, crc, 0x7E] given to a Synchronized
\* framer is accepted: all its |B|+5 bytes are consumed and the framer stays
\* Synchronized; when S is next_sequence the body is dispatched exactly once
\* and next_sequence becomes the byte after S in the cycle, 0x1F wrapping to
\* 0x10.
C1_FrameAccepted ==
    GivenFrame =>
        /\ Len(rx.given.body) <= LongBodyLen
        /\ rx.data = <<Len(rx.given.body) + 5, rx.given.seq>> \o rx.given.body
                     \o <<crc_hi(crc16(Take(rx.data, Len(rx.given.body) + 2))),
                          crc_lo(crc16(Take(rx.data, Len(rx.given.body) + 2))), 126>>
        /\ input = <<>>
        /\ rx.pops = <<Len(rx.given.body) + 5>>
        /\ is_synchronized
        /\ EventsOf("accept") = {1}
        /\ rx.ev[1].n = rx.given.seq /\ rx.ev[1].bytes = rx.given.body
        /\ EventsOf("desync") = {}
        /\ (rx.given.seq = rx.ns =>
               /\ EventsOf("parse") = {2}
               /\ rx.ev[2].bytes = rx.given.body
               /\ next_sequence = SeqAfter(rx.given.seq))

\* C1's case: the longest frame, carrying the expected sequence byte 0x1F.
C1_Witness ==
    /\ GivenFrame
    /\ Len(rx.given.body) = LongBodyLen
    /\ rx.given.seq = 31
    /\ rx.ns = 31
    /\ next_sequence = 16
    /\ EventsOf("parse") = {2}

\* Where an event starts the handling of a new piece of the input.
Boundary(i) == rx.ev[i].e \in {"accept", "desync", "resync"}

\* The events that follow event i up to the next boundary.
SegmentOf(i) ==
    {j \in (i + 1)..Len(rx.ev) : \A k \in (i + 1)..j : ~Boundary(k)}

\* The frames of a segment that are ACKs: those with length byte 5.
AcksIn(seg) ==
    {j \in seg : rx.ev[j].e = "out" /\ rx.ev[j].bytes[1] = MESSAGE_LENGTH_MIN}

\* next_sequence after the first j events of the call: every dispatch has
\* moved it one step round the cycle.
NsAt(j) ==
    ((rx.ns - 16 + Cardinality({k \in EventsOf("parse") : k <= j})) % 16) + 16

\* C2: every acceptance of a frame by receive, dispatched or stale, hands
\* exactly one ACK frame to the transport output, after whatever the handlers
\* sent, and that frame is [5, ns, crc_hi, crc_lo, 0x7E] with ns the value of
\* next_sequence after the frame was processed and the CRC over [5, ns].
C2_AckPerAcceptance ==
    Received =>
        /\ NsAt(Len(rx.ev)) = next_sequence
        /\ Len(sink) = Cardinality(EventsOf("out"))
        /\ \A i \in EventsOf("accept") :
              /\ Cardinality(AcksIn(SegmentOf(i))) = 1
              /\ \A j \in AcksIn(SegmentOf(i)) :
                    /\ rx.ev[j].bytes = AckFrame(NsAt(j))
                    /\ \A k \in SegmentOf(i) : k <= j
                    /\ (\A k \in SegmentOf(i) : rx.ev[k].e \notin {"accept"})
                    /\ (j = Len(rx.ev) => sink[Len(sink)] = AckFrame(next_sequence))

\* C2's case: a call that accepted two frames, one of them answered by its
\* handler before the ACK.
C2_Witness ==
    /\ Received
    /\ Cardinality(EventsOf("accept")) = 2
    /\ \E j \in EventsOf("out") : Len(rx.ev[j].bytes) > 5
    /\ Len(sink) = 3

\* C3: a well-formed frame whose sequence byte differs from next_sequence is
\* consumed in full, no handler is called, next_sequence stays, and one ACK
\* with the unchanged next_sequence is all that is sent; a frame sent twice
\* in a row is dispatched once.
C3_StaleSequence ==
    /\ (GivenFrame /\ rx.given.seq # rx.ns) =>
          /\ input = <<>>
          /\ rx.pops = <<Len(rx.data)>>
          /\ is_synchronized
          /\ EventsOf("parse") = {}
          /\ EventsOf("call") = {}
          /\ next_sequence = rx.ns
          /\ sink = <<AckFrame(rx.ns)>>
    /\ (Received /\ rx.given.kind = "twice" /\ rx.sync /\ rx.rest = <<>>) =>
          /\ input = <<>>
          /\ Cardinality(EventsOf("accept")) = 2
          /\ Cardinality(EventsOf("parse")) = 1
          /\ Cardinality(EventsOf("call")) = 1
          /\ next_sequence = SeqAfter(rx.ns)
          /\ Len(sink) = 3
          /\ sink[2] = AckFrame(SeqAfter(rx.ns))
          /\ sink[3] = AckFrame(SeqAfter(rx.ns))

\* C3's case: the frame before the expected one, carrying a command, arrives.
C3_Witness ==
    /\ GivenFrame
    /\ rx.given.seq = PrevSeq(rx.ns)
    /\ rx.given.body = <<ID_GET_CLOCK>>
    /\ sink = <<AckFrame(rx.ns)>>

\* C4: in every reachable state the high nibble of next_sequence is 0x10.
C4_DestNibble == next_sequence \div 16 = 1

\* C4's case: the dispatch that takes next_sequence from 0x1F round to 0x10.
C4_Witness ==
    /\ Received
    /\ rx.ns = 31
    /\ EventsOf("parse") # {}
    /\ next_sequence = 16

\* The four framing faults of the bytes d at the front of the input.
FrontLenBad(d) == Len(d) >= 1 /\ ~(5 <= d[1] /\ d[1] <= 64)
FrontSeqBad(d) == Len(d) >= 2 /\ d[2] \div 16 # 1
FrontComplete(d) == Len(d) >= 1 /\ 5 <= d[1] /\ d[1] <= 64 /\ Len(d) >= d[1]
FrontSyncBad(d) == FrontComplete(d) /\ d[d[1]] # 126
FrontCrcBad(d) ==
    FrontComplete(d) /\ d[d[1] - 2] * 256 + d[d[1] - 1] # crc16(Take(d, d[1] - 3))
FramingFault(d) ==
    FrontLenBad(d) \/ FrontSeqBad(d) \/ FrontSyncBad(d) \/ FrontCrcBad(d)

\* The first sync byte of d is its n-th byte, counting from 0.
FirstSyncAt(d, n) ==
    /\ n + 1 \in 1..Len(d)
    /\ d[n + 1] = 126
    /\ \A k \in 1..n : d[k] # 126

\* What follows a framing fault: the framer goes Unsynchronized first; it
\* then calls no handler, leaves next_sequence and sends nothing, until it
\* consumes the next sync byte and sends one ACK with the unchanged
\* next_sequence.
FaultHandled ==
    /\ rx.ev # <<>>
    /\ rx.ev[1].e = "desync"
    /\ IF Len(rx.ev) = 1
       THEN /\ ~is_synchronized
            /\ sink = <<>>
            /\ next_sequence = rx.ns
            /\ \A k \in 1..Len(rx.data) : rx.data[k] # 126
       ELSE /\ rx.ev[2].e = "resync"
            /\ FirstSyncAt(rx.data, rx.ev[2].n)
            /\ Len(rx.ev) >= 3
            /\ rx.ev[3].e = "out"
            /\ rx.ev[3].bytes = AckFrame(rx.ns)
            /\ sink[1] = AckFrame(rx.ns)
            /\ (Len(rx.ev) >= 4 => rx.ev[4].e # "out")

\* An Unsynchronized framer sends nothing and keeps next_sequence until a
\* sync byte arrives, and then sends one ACK with the unchanged next_sequence.
UnsynchronizedWaits ==
    (Received /\ ~rx.sync) =>
        IF \A k \in 1..Len(rx.data) : rx.data[k] # 126
        THEN rx.ev = <<>> /\ sink = <<>> /\ ~is_synchronized
             /\ next_sequence = rx.ns /\ input = <<>>
        ELSE /\ rx.ev[1].e = "resync"
             /\ FirstSyncAt(rx.data, rx.ev[1].n)
             /\ rx.ev[2].e = "out"
             /\ rx.ev[2].bytes = AckFrame(rx.ns)
             /\ sink[1] = AckFrame(rx.ns)
             /\ (Len(rx.ev) >= 3 => rx.ev[3].e # "out")

\* C5 as stated: any of the four framing faults at the front of the input of
\* a Synchronized framer desynchronizes it.
C5_AsStated ==
    /\ (Received /\ rx.sync /\ FramingFault(rx.data)) => FaultHandled
    /\ UnsynchronizedWaits

\* C5: when a Synchronized framer has at least 5 bytes at the front of its
\* input and the first is not the sync byte, a length byte outside 5..=64, a
\* sequence byte whose high nibble is not 0x10, or, with the declared length
\* available, a last byte other than 0x7E or a CRC mismatch makes it
\* Unsynchronized; no handler is called, next_sequence stays and no ACK is
\* sent until a later sync byte is consumed, and then exactly one ACK with the
\* unchanged next_sequence is sent.
C5_FramingFaults ==
    /\ (Received /\ rx.sync /\ Len(rx.data) >= 5 /\ rx.data[1] # 126
          /\ FramingFault(rx.data)) => FaultHandled
    /\ UnsynchronizedWaits

\* C5's case: a frame whose CRC alone is wrong, its trailing sync byte
\* bringing the framer back.
C5_Witness ==
    /\ Received
    /\ rx.sync
    /\ rx.given.fault = "crc"
    /\ FrontCrcBad(rx.data)
    /\ ~FrontLenBad(rx.data) /\ ~FrontSeqBad(rx.data) /\ ~FrontSyncBad(rx.data)
    /\ Len(rx.ev) = 3
    /\ sink = <<AckFrame(rx.ns)>>

\* The receive call was given a valid frame F1, garbage G, and a valid frame
\* F2 carrying the sequence expected after F1.
GivenGarbageBetween ==
    /\ Received
    /\ rx.given.kind = "mix"
    /\ rx.given.first # <<>>
    /\ rx.sync
    /\ rx.rest = <<>>

\* F2 is accepted and its body dispatched, and the framer is Synchronized
\* with nothing left of the input.
SecondFrameDispatched ==
    /\ \E i \in EventsOf("parse") :
          /\ rx.ev[i].n = SeqAfter(rx.ns)
          /\ rx.ev[i].bytes = rx.given.body
          /\ rx.ev[i - 1].e = "accept"
          /\ rx.ev[i - 1].rem = 0
    /\ is_synchronized
    /\ input = <<>>
    /\ next_sequence = SeqAfter(SeqAfter(rx.ns))

\* G ends with a sync byte and nowhere holds a byte that is a valid length
\* followed by a byte that is a valid sequence byte.
NoHeaderInGarbage(G) ==
    /\ G # <<>> => G[Len(G)] = 126
    /\ \A k \in 1..(Len(G) - 1) :
          ~(5 <= G[k] /\ G[k] <= 64 /\ G[k + 1] \div 16 = 1)

\* C6 as stated: whatever the garbage G between F1 and F2, F2 is accepted and
\* dispatched.
C6_AsStated == GivenGarbageBetween => SecondFrameDispatched

\* C6: when the garbage G between two valid frames F1 and F2 ends with the
\* sync byte 0x7E and holds no valid length byte followed by a valid sequence
\* byte, the framer has recovered by that sync byte, and F2 is accepted and
\* its body dispatched.
C6_GarbageBetweenFrames ==
    (GivenGarbageBetween /\ NoHeaderInGarbage(rx.given.garbage))
        => SecondFrameDispatched

\* C6's case: garbage that desynchronizes the framer, and ends with the sync
\* byte that brings it back.
C6_Witness ==
    /\ GivenGarbageBetween
    /\ rx.given.garbage = <<255, 16, 126>>
    /\ EventsOf("desync") # {}
    /\ EventsOf("resync") # {}
    /\ SecondFrameDispatched

\* The body a sender's closure writes, were nothing to limit it.
BodyOf(writes) == apply_writes(Vec_new, writes).data

\* A frame of n bytes is within the capacity of the buffer ob.
Fits(ob, n) == ob.kind = "vec" \/ n <= ob.max

\* The frame the protocol defines for sequence byte ns and body B.
FrameFor(ns, B) ==
    <<Len(B) + 5, ns>> \o B
    \o <<crc16(<<Len(B) + 5, ns>> \o B) \div 256,
         crc16(<<Len(B) + 5, ns>> \o B) % 256, 126>>

\* What receive does with the frame f when Synchronized and expecting ns:
\* it accepts f as a whole, with the body B.
Accepts(r, f, ns, B) ==
    /\ r.consumed = Len(f)
    /\ r.m.sync
    /\ r.m.ev[1].e = "accept"
    /\ r.m.ev[1].n = ns
    /\ r.m.ev[1].bytes = B
    /\ r.m.ev[1].rem = 0
    /\ \A i \in 1..Len(r.m.ev) : r.m.ev[i].e # "desync"

\* C7: for every body a sender writes with |body| + 5 <= 64 and within the
\* capacity of the output buffer, encode_frame on the empty buffer hands over
\* exactly [|body|+5, next_sequence, body, crc_hi, crc_lo, 0x7E], the CRC16
\* taken over the first |body|+2 bytes and stored big-endian; these bytes
\* pass the length, DEST nibble, trailing sync and CRC checks of receive,
\* which yields the same body.
C7_WriteRoundTrip ==
    (tx.sent /\ Len(BodyOf(tx.writes)) + 5 <= 64
        /\ Fits(tx.ob, Len(BodyOf(tx.writes)) + 5)) =>
        /\ pc = "returned"
        /\ sink = <<FrameFor(tx.ns, BodyOf(tx.writes))>>
        /\ FrontComplete(sink[1])
        /\ Len(sink[1]) = sink[1][1]
        /\ ~FramingFault(sink[1])
        /\ Accepts(receive(TRUE, tx.ns, sink[1], 0), sink[1], tx.ns,
                   BodyOf(tx.writes))

\* C7's case: the longest body that fits, written to a ScratchOutput<64>.
C7_Witness ==
    /\ pc = "returned"
    /\ tx.sent
    /\ tx.ob = ScratchOutput_new(64)
    /\ Len(BodyOf(tx.writes)) = 59
    /\ Len(sink) = 1
    /\ Len(sink[1]) = 64

\* Every frame handed to the transport output in this iteration declares its
\* own length, which lies in 5..=64.
FramesDeclareLength ==
    \A k \in 1..Len(sink) :
        /\ sink[k][1] = Len(sink[k])
        /\ 5 <= Len(sink[k])
        /\ Len(sink[k]) <= 64

\* C8 as stated: for any body the caller writes.
C8_AsStated == FramesDeclareLength

\* C8: every frame that encode_frame hands to the transport output for a
\* body of at most 59 bytes, and every frame encode_acknak hands to it, has
\* byte 0 equal to its total length in bytes, and that length lies in 5..=64.
C8_DeclaredLength ==
    (tx.sent => Len(BodyOf(tx.writes)) <= 59) => FramesDeclareLength

\* C8's case: a body of 59 bytes written to a buffer without a capacity.
C8_Witness ==
    /\ tx.sent
    /\ tx.ob.kind = "vec"
    /\ Len(BodyOf(tx.writes)) = 59
    /\ Len(sink) = 1
    /\ sink[1][1] = 64

\* C9: for every signed 32-bit v, parse_vlq_int on the bytes of
\* encode_vlq_int(v) returns v and consumes exactly those bytes, also when
\* further bytes follow: of A || B, A the encoding of one integer, exactly B
\* is left in the input.
C9_VlqRoundTrip ==
    codec.op = "encode" =>
        /\ codec.res.ok
        /\ codec.res.v = codec.v
        /\ codec.res.data = codec.tail
        /\ Len(codec.bytes) + Len(codec.res.data) = Len(codec.bytes \o codec.tail)

\* C9's case: the most negative integer, five bytes long, followed by the
\* encoding of another integer.
C9_Witness ==
    /\ codec.op = "encode"
    /\ codec.v = I32_MIN
    /\ Len(codec.bytes) = 5
    /\ codec.tail = <<255, 95>>
    /\ codec.res.v = I32_MIN

\* C10: for every signed 32-bit v, encode_vlq_int emits between 1 and 5
\* bytes, every byte but the last with the high bit set and the last with it
\* clear, and no shorter byte string decodes to v: whatever string
\* parse_vlq_int decodes in full, the encoding of the value it yields is no
\* longer, and no single byte decodes to a value encoded in more than one.
C10_VlqMinimal ==
    /\ codec.op = "encode" =>
          /\ 1 <= Len(codec.bytes) /\ Len(codec.bytes) <= 5
          /\ \A i \in 1..(Len(codec.bytes) - 1) : codec.bytes[i] >= 128
          /\ codec.bytes[Len(codec.bytes)] < 128
          /\ (Len(codec.bytes) > 1 =>
                \A b \in 0..127 : parse_vlq_int(<<b>>).v # codec.v)
    /\ (codec.op = "decode" /\ codec.res.ok /\ codec.res.data = <<>>) =>
          Len(codec.enc) <= Len(codec.bytes)

\* C10's case: a string of three bytes that decodes to a value which three
\* bytes are needed for.
C10_Witness ==
    /\ codec.op = "decode"
    /\ codec.res.ok
    /\ codec.res.data = <<>>
    /\ Len(codec.bytes) = 3
    /\ Len(codec.enc) = 3

\* The receive call was given a frame of command units with the expected
\* sequence byte, at the front of the input of a Synchronized framer.
GivenUnits ==
    /\ Received
    /\ rx.given.kind = "units"
    /\ rx.sync
    /\ rx.rest = <<>>

RECURSIVE GoodPrefix(_)
\* The units in front of the first that is unassigned or cut short.
GoodPrefix(U) ==
    IF U = <<>> \/ Head(U) \notin GoodUnits THEN <<>>
    ELSE <<Head(U)>> \o GoodPrefix(Tail(U))

RECURSIVE CallsBetween(_, _)
\* The handler calls among the events i..j of the trace, in order.
CallsBetween(i, j) ==
    IF i > j THEN <<>>
    ELSE (IF rx.ev[i].e = "call"
          THEN <<HostUnit(<<>>, rx.ev[i].n, rx.ev[i].bytes)>> ELSE <<>>)
         \o CallsBetween(i + 1, j)

\* The calls a list of units stands for.
CallsOf(P) == [i \in 1..Len(P) |-> HostUnit(<<>>, P[i].cmd, P[i].vals)]

\* The last event of the segment that event i starts.
SegmentEnd(i) == i + Cardinality(SegmentOf(i))

ReadDone == pc = "returned" /\ codec.op = "read"

\* s is one whole integer on the wire: every byte but the last has the high
\* bit set.
OneVlq(s) ==
    /\ s # <<>>
    /\ \A i \in 1..Len(s) : (s[i] >= 128) <=> (i < Len(s))

\* The first k bytes of the input are exactly the bytes of the value read:
\* one integer, and for &[u8] the integer followed by as many bytes as it
\* tells, which are the value.
ValueBytes(k) ==
    IF codec.ty = "bytes"
    THEN \E j \in 1..k :
            /\ OneVlq(Take(codec.bytes, j))
            /\ codec.res.v = SubSeq(codec.bytes, j + 1, k)
            /\ read("u32", Take(codec.bytes, j)).v = k - j
    ELSE OneVlq(Take(codec.bytes, k))

\* C12: for every Readable (u8, u16, i16, u32, i32, bool, &[u8]) and every
\* input, a read that returns ReadError leaves `data` as it was before the
\* call, and a read that succeeds leaves it advanced past exactly the bytes
\* of the value read.
C12_ReadAdvance ==
    ReadDone =>
        IF codec.res.ok
        THEN \E k \in 1..Len(codec.bytes) :
                /\ codec.res.data = Drop(codec.bytes, k)
                /\ ValueBytes(k)
        ELSE codec.res.data = codec.bytes

\* The bytes at the front of d are the start of a frame that a Synchronized
\* framer waits for: not a sync byte, and fewer than 5 or fewer than the
\* length byte tells.
Incomplete(d) ==
    /\ d[1] # MESSAGE_VALUE_SYNC
    /\ \/ Len(d) < MESSAGE_LENGTH_MIN
       \/ /\ d[1] \in MESSAGE_LENGTH_MIN..MESSAGE_LENGTH_MAX
          /\ d[2] \in SeqBytes
          /\ Len(d) < d[1]

\* C13: when receive returns, pop was called at most once, with a count
\* greater than zero and not above the bytes available; the buffer holds the
\* suffix of the data that was not consumed, unchanged; the suffix is empty or
\* the incomplete front of a frame, and every event of the call happened with
\* at least these bytes still to come.
C13_PopConsumed ==
    Received =>
        /\ Len(rx.pops) <= 1
        /\ \A i \in 1..Len(rx.pops) : rx.pops[i] > 0 /\ rx.pops[i] <= Len(rx.data)
        /\ Len(input) <= Len(rx.data)
        /\ input = SubSeq(rx.data, Len(rx.data) - Len(input) + 1, Len(rx.data))
        /\ rx.pops = IF Len(input) < Len(rx.data)
                     THEN <<Len(rx.data) - Len(input)>> ELSE <<>>
        /\ (input # <<>> => is_synchronized /\ Incomplete(input))
        /\ \A i \in 1..Len(rx.ev) : rx.ev[i].rem >= Len(input)

\* C13's case: a call that accepted a frame and left the start of the next
\* one in the buffer.
C13_Witness ==
    /\ Received
    /\ EventsOf("accept") # {}
    /\ Len(rx.pops) = 1
    /\ rx.pops[1] < Len(rx.data)
    /\ input # <<>>

\* The place in the sink of the frame that event j handed over.
OutIndex(j) == Cardinality({k \in EventsOf("out") : k <= j})

\* The ACKs handed over between the acceptance at event i and the next piece
\* of input.
AcksOf(i) == AcksIn(SegmentOf(i))

\* C14: when a receive call returns, the transport output holds, for every
\* frame the call accepted, the ACK of that frame, carrying next_sequence as
\* it was after the frame; the ACKs of several frames lie in the output in the
\* order of the frames.
C14_AckBeforeReturn ==
    Received =>
        /\ Len(sink) = Cardinality(EventsOf("out"))
        /\ \A j \in EventsOf("out") : sink[OutIndex(j)] = rx.ev[j].bytes
        /\ \A i \in EventsOf("accept") :
              \E j \in AcksOf(i) : sink[OutIndex(j)] = AckFrame(NsAt(j))
        /\ \A i1, i2 \in EventsOf("accept") :
              i1 < i2 =>
                 \A j1 \in AcksOf(i1), j2 \in AcksOf(i2) : OutIndex(j1) < OutIndex(j2)

\* C14's case: a call that accepted and dispatched two frames; the output
\* holds the ACK of the first before the ACK of the second.
C14_Witness ==
    /\ Received
    /\ Cardinality(EventsOf("accept")) = 2
    /\ Cardinality(EventsOf("parse")) = 2
    /\ \E a, b \in 1..Len(sink) :
          /\ a < b
          /\ sink[a] = AckFrame(SeqAfter(rx.ns))
          /\ sink[b] = AckFrame(SeqAfter(SeqAfter(rx.ns)))

\* min(k, L) and min(k + n, L) with k + n the mathematical sum, for a
\* dictionary of L bytes
ClampOffset(k, L) == IF k.hi > 0 \/ k.lo > L THEN L ELSE k.lo
ClampEnd(k, n, L) == IF k.hi + n.hi > 0 \/ k.lo + n.lo > L THEN L ELSE k.lo + n.lo

\* C15: for every offset k and count n of the u32 range and every dictionary
\* D, handle_identify(k, n) completes without failure and sends
\* identify_response(offset = min(k, |D|), data = D[min(k, |D|) .. min(k+n, |D|)]),
\* k+n being the mathematical sum.
C15_IdentifySlicing ==
    ident.last.called =>
        /\ ~ident.last.panicked
        /\ pc = "returned"
        /\ ident.last.resp.ok
        /\ ident.last.resp.offset = ClampOffset(ident.last.offset, Len(ident.DATA))
        /\ ident.last.resp.data
             = SubSeq(ident.DATA,
                      ClampOffset(ident.last.offset, Len(ident.DATA)) + 1,
                      ClampEnd(ident.last.offset, ident.last.count, Len(ident.DATA)))

\* The window is short enough for its response to fit a frame.
ShortWindow(len) == len.hi = 0 /\ 0 < len.lo /\ len.lo <= MaxWindow

Positions == 1..Len(build.messages)

\* C17: whenever the build emits its artifact, every message of the catalog
\* has an ID of 0..255 and no two messages have the same ID.
C17_UniqueIds ==
    build.phase = "emitted" =>
        /\ \A i \in Positions : build.messages[i].id \in 0..U8_MAX
        /\ \A i, j \in Positions :
              i # j => build.messages[i].id # build.messages[j].id

\* The IDs the catalog needs: those it brings along and one more for each
\* message without.
Required ==
    Cardinality(used_ids(build.given))
    + Cardinality({i \in 1..Len(build.given) : build.given[i].id = NONE})

\* The cursor at assignment k of the trace: 0 at first, then one past the ID
\* given before.
CursorAt(k) == IF k = 1 THEN 0 ELSE build.assigned[k - 1].id + 1

\* C18: assign_command_ids leaves the IDs the messages bring along; walking
\* the catalog in key order, the cursor starting at 0, it gives each message
\* without an ID the smallest ID from the cursor on that is not in the used
\* set, puts it into the set, and goes on with the cursor one past it; the
\* IDs given grow along the key order and none is an ID brought along.
\* Stated for the assignment made last, in every state of the walk.
C18_Assignment ==
    build.phase # "none" =>
        /\ Len(build.messages) = Len(build.given)
        /\ \A i \in Positions :
              /\ build.messages[i].kind = build.given[i].kind
              /\ build.given[i].id # NONE => build.messages[i].id = build.given[i].id
        /\ Len(build.assigned)
             = Cardinality({i \in Positions : build.given[i].id = NONE
                                               /\ build.messages[i].id # NONE})
        /\ build.assigned # <<>> =>
              LET k == Len(build.assigned)
                  a == build.assigned[k]
              IN  /\ build.last.cursor = CursorAt(k)
                  /\ build.given[a.pos].id = NONE
                  /\ build.messages[a.pos].id = a.id
                  /\ a.id >= build.last.cursor /\ a.id <= U8_MAX
                  /\ a.id \notin build.last.used
                  /\ \A x \in build.last.cursor..(a.id - 1) : x \in build.last.used
                  /\ build.used = build.last.used \cup {a.id}
                  /\ a.id \notin used_ids(build.given)
                  /\ k > 1 => /\ build.assigned[k - 1].pos < a.pos
                              /\ build.assigned[k - 1].id < a.id
                  /\ \A i \in 1..(a.pos - 1) : build.messages[i].id # NONE
        /\ build.assign = "done" => \A i \in Positions : build.messages[i].id # NONE
        /\ build.used = used_ids(build.messages)

\* C18's case: a finished walk in which the cursor had to step over the ID a
\* reply brought along, between two assignments.
C18_Witness ==
    /\ build.assign = "done"
    /\ Len(build.assigned) >= 2
    /\ build.assigned[Len(build.assigned)].id > build.last.cursor
    /\ build.last.cursor \in used_ids(build.given)

\* C19: assign_command_ids fails the build with 'Too many commands' exactly
\* when the catalog needs more than 255 IDs; when it needs at most 255 it
\* ends with every message given an ID of 0..255 and no u8 addition
\* overflowing or wrapping round.
C19_Capacity ==
    (build.phase # "none" /\ build.assign # "running") =>
        /\ (build.assign = "too_many") <=> (Required > U8_MAX)
        /\ Required <= U8_MAX =>
              /\ build.assign = "done"
              /\ ~build.wrapped
              /\ \A i \in Positions : build.messages[i].id \in 0..U8_MAX

\* An extend has returned.
Extended == pc = "returned" /\ fifo.last.op = "extend"

Popped == pc = "returned" /\ fifo.last.op = "pop"

\* min(n, len) of the last pop
PopCount == Min(fifo.last.n.lo, fifo.last.before.used)

\* pop(n) takes min(n, len) bytes off the front.
PopStep ==
    Popped =>
        /\ fifo.used = fifo.last.before.used - PopCount
        /\ fifo_data(fifo) = Drop(fifo_data(fifo.last.before), PopCount)

Advanced == pc \in {"returned", "panicked"} /\ fifo.last.op = "advance"

\* min(len + n, C) for the last advance
AdvanceLen ==
    IF fifo.last.n.hi > 0 \/ fifo.last.before.used + fifo.last.n.lo > BUF_SIZE
    THEN BUF_SIZE ELSE fifo.last.before.used + fifo.last.n.lo

\* C22: whatever the calls and their arguments, 0 <= len <= C and
\* len + receive_buffer().len() = C, and advance(n) returns with len set to
\* min(len + n, C).
C22_FifoBounds ==
    /\ 0 <= fifo.used
    /\ fifo.used <= BUF_SIZE
    /\ fifo.used + Len(receive_buffer(fifo)) = BUF_SIZE
    /\ Advanced => ~fifo.panicked /\ fifo.used = AdvanceLen

\* A cursor has been taken and no call on the buffer has panicked.
Marked == out.phase = "marked" /\ ~out.ob.panicked

\* C23: with a cursor c taken on a buffer of either implementation that
\* holds any bytes, and bytes appended since without truncation,
\* data_since(c) is the bytes appended since with the first of them replaced
\* by the value of the last update(c, v), the bytes the buffer held before
\* are untouched, and c can be used after every append.
C23_Cursor ==
    Marked =>
        /\ ~data_since_panics(out.ob, out.cursor)
        /\ data_since(out.ob, out.cursor) = out.expect
        /\ Take(out.ob.data, Len(out.prior)) = out.prior

RECURSIVE Whole(_)
\* The frames that fitted, one after the other
Whole(frames) ==
    IF frames = <<>> THEN <<>>
    ELSE (IF Head(frames).fits THEN Head(frames).bytes ELSE <<>>) \o Whole(Tail(frames))

ToArms == variant_to_matches(enums.variants)

\* C25: for every enumeration and every i of 0..=max_variant(), TryFrom(i)
\* gives a variant, From of that variant gives i, and From gives different
\* variants different numbers.
C25_RoundTrip ==
    enums.called =>
        /\ enums.tried.ok
        /\ enums.back = enums.i
        /\ \A a, b \in 1..Len(ToArms) :
              ToArms[a].ident # ToArms[b].ident => ToArms[a].number # ToArms[b].number

\* A sender's closure has run.
Sent == codec.op = "sender"

\* C26: for every message ID i of 0..=255, what a generated sender writes for
\* the ID is the VLQ encoding of i: parse_vlq_int reads i from the body and
\* leaves exactly the encoded arguments.
C26_SenderId ==
    Sent =>
        /\ codec.bytes = codec.enc \o codec.tail
        /\ codec.res.ok
        /\ codec.res.v = codec.v
        /\ codec.res.data = codec.tail

\* The strings met so far, and for each the place where it was met first
Met == {tracker.inserted[k] : k \in 1..Len(tracker.inserted)}
FirstMet(ss) == CHOOSE k \in 1..Len(tracker.inserted) :
                    tracker.inserted[k] = ss /\ \A j \in 1..(k - 1) : tracker.inserted[j] # ss

\* How many different strings were met before the place k
NewBefore(k) == Cardinality({tracker.inserted[j] : j \in 1..(k - 1)})

\* C27: after any insertions the tracker holds exactly the strings met, each
\* with one ID; the IDs are 2, 3, 4, ... in the order in which the strings
\* were met first, whatever was met again in between; and the final
\* dictionary's static_string_id lists exactly these strings with these IDs.
C27_StaticStrings ==
    /\ DOMAIN tracker.t.strings = Met
    /\ \A ss \in Met : tracker.t.strings[ss] = STATIC_STRING_MIN + NewBefore(FirstMet(ss))
    /\ tracker.t.next_id = STATIC_STRING_MIN + Cardinality(Met)
    /\ tracker.final =>
          /\ DOMAIN tracker.static_string_id = Met
          /\ \A ss \in Met : tracker.static_string_id[ss] = [Number |-> tracker.t.strings[ss]]

\* C27's case: three strings, the first met again after the second, and the
\* dictionary made.
C27_Witness ==
    /\ tracker.final
    /\ tracker.inserted = <<"b", "a", "b", "c">>
    /\ tracker.static_string_id["b"].Number = 2
    /\ tracker.static_string_id["a"].Number = 3
    /\ tracker.static_string_id["c"].Number = 4

RECURSIVE Generates(_)
\* The klipper_config_generate! invocations in files
Generates(files) ==
    IF files = <<>> THEN 0
    ELSE Cardinality({k \in 1..Len(Head(files)) : Head(files)[k] = "generate"})
         + Generates(Tail(files))

\* C28: a build that read more than one klipper_config_generate! invocation
\* in the files of the program ends with an error shown to the user and without an output
\* file.
C28_MultipleGenerate ==
    (scan.phase = "ended" /\ Generates(scan.program) > 1) => scan.outcome = "failed"

\* A frame whose first command unit has an ID outside 0..=255 was received
\* by a synchronized framer with nothing pending.
GivenWide ==
    /\ Received
    /\ rx.given.kind = "wide"
    /\ rx.sync
    /\ rx.rest = <<>>

\* C29: a command unit whose VLQ-decoded 32-bit ID lies outside 0..=255 is
\* not dispatched to any handler, and no unit behind it in the body is.
C29_WideId ==
    GivenWide =>
        /\ EventsOf("accept") = {1}
        /\ EventsOf("call") = {}

\* The points of a receive call at which the framer is Unsynchronized with
\* input in front of it: the start of the call (0), and every desync event.
UnsyncPoints ==
    (IF ~rx.sync /\ rx.data # <<>> THEN {0} ELSE {}) \cup EventsOf("desync")

\* The input not yet consumed at the point p.
InputAt(p) == IF p = 0 THEN rx.data ELSE Drop(rx.data, Len(rx.data) - rx.ev[p].rem)

\* C30: when the framer is Unsynchronized and the input holds a sync byte,
\* first at offset n, receive consumes the bytes 0..=n, becomes Synchronized
\* and sends exactly one ACK carrying the current next_sequence before it
\* looks at the bytes that follow; when the input holds no sync byte, all of
\* it is consumed, the framer stays Unsynchronized, and nothing is sent or
\* dispatched.
C30_Resynchronize ==
    Received =>
        \A p \in UnsyncPoints :
            IF \E k \in 1..Len(InputAt(p)) : InputAt(p)[k] = MESSAGE_VALUE_SYNC
            THEN /\ Len(rx.ev) >= p + 2
                 /\ rx.ev[p + 1].e = "resync"
                 /\ FirstSyncAt(InputAt(p), rx.ev[p + 1].n)
                 /\ rx.ev[p + 1].rem = Len(InputAt(p)) - (rx.ev[p + 1].n + 1)
                 /\ Len(input) <= rx.ev[p + 1].rem
                 /\ rx.ev[p + 2].e = "out"
                 /\ rx.ev[p + 2].bytes = AckFrame(NsAt(p))
                 /\ rx.ev[p + 2].rem = rx.ev[p + 1].rem
                 /\ SegmentOf(p + 1) = {p + 2}
                 /\ ((\A i \in EventsOf("desync") : i <= p) => is_synchronized)
            ELSE /\ Len(rx.ev) = p
                 /\ ~is_synchronized
                 /\ input = <<>>
                 /\ rx.pops = <<Len(rx.data)>>
                 /\ next_sequence = NsAt(p)
                 /\ (p = 0 => sink = <<>>)

\* C30's case: a call that began Unsynchronized found the first sync byte
\* behind other bytes, sent the ACK with the unchanged next_sequence, and
\* went on to accept the frame that followed.
C30_Witness ==
    /\ Received
    /\ ~rx.sync
    /\ Len(rx.ev) >= 2
    /\ rx.ev[1].e = "resync"
    /\ rx.ev[1].n > 0
    /\ rx.ev[1].rem > 0
    /\ sink[1] = AckFrame(rx.ns)
    /\ EventsOf("accept") # {}

\* The buffer holds a prefix of the bytes passed to output since the last
\* reset, but for the bytes an update replaced.
PrefixOfPassed ==
    /\ Len(result(pad.ob)) <= Len(pad.passed)
    /\ \A k \in 1..Len(result(pad.ob)) :
          k \in pad.replaced \/ result(pad.ob)[k] = pad.passed[k]

\* C31: a ScratchOutput of capacity N never fails and never writes past its
\* capacity: after any sequence of output, update, data_since and reset calls
\* idx <= N, result() is a prefix of the bytes passed to output since the last
\* reset (but for the bytes update replaced), and an append that does not fit
\* is truncated without a failure.
C31_ScratchNeverFails ==
    pad.ob.max = ScratchSize =>
        /\ ~pad.ob.panicked
        /\ Len(result(pad.ob)) <= ScratchSize
        /\ PrefixOfPassed
        /\ Len(result(pad.ob)) = Min(Len(pad.passed), ScratchSize)

\* The value of type `type` that the integer v read stands for.
TypedOf(type, v) ==
    IF type = "u32" THEN [hi |-> (v \div 65536) % 65536, lo |-> v % 65536] ELSE v

\* The width in bits of an integer type, and the reading of the low bits of
\* the 32 bits written as a value of the type.
WidthOf(type) == CASE type = "u8" -> 8 [] type \in {"u16", "i16"} -> 16 [] OTHER -> 32
Truncated(type, v) ==
    CASE type = "u8" -> v % 256
      [] type = "u16" -> v % 65536
      [] type = "i16" -> IF v % 65536 >= 32768 THEN (v % 65536) - 65536 ELSE v % 65536
      [] OTHER -> v

\* C32: for every T in {u8, u16, i16, u32, i32} and every value t of T,
\* reading a T from the bytes T's Writable wrote returns t and consumes
\* exactly those bytes; bool round-trips through 0 and 1; and reading a T from
\* an encoded value outside T's range gives the value modulo 2^width, not an
\* error.
C32_TypedRoundTrip ==
    codec.op = "typed" =>
        /\ codec.res.ok
        /\ codec.res.data = codec.tail
        /\ (codec.wty = codec.ty => TypedOf(codec.ty, codec.res.v) = codec.t)
        /\ (codec.wty = "bool" => codec.bytes = IF codec.t THEN <<1>> ELSE <<0>>)
        /\ (codec.ty # "bool" => codec.res.v = Truncated(codec.ty, codec.v))

\* C32's case: 40000 written as an i32 and read as an i16.
C32_Witness ==
    /\ codec.op = "typed"
    /\ codec.wty = "i32"
    /\ codec.ty = "i16"
    /\ codec.t = 40000
    /\ codec.res.ok
    /\ codec.res.v = 40000 - 65536

\* What an iteration of a loop did: it consumed at least one byte, it left
\* the loop, or it went from Synchronized to Unsynchronized consuming nothing.
Consumed(it) == it.len_after < it.len
Desynchronized(it) ==
    it.sync /\ ~it.sync_after /\ it.len_after = it.len /\ ~it.brk

\* C33: every iteration of receive's loop consumes at least one byte, or
\* leaves the loop for want of data, or goes from Synchronized to
\* Unsynchronized without consuming, and the iteration after one of that last
\* kind consumes at least one byte; every iteration of parse_frame's loop
\* consumes at least one byte or leaves the loop.
C33_LoopsProgress ==
    /\ (iter.of = "receive" /\ iter.steps >= 1) =>
          /\ Consumed(iter.last) \/ iter.last.brk \/ Desynchronized(iter.last)
          /\ (iter.last.brk => iter.last.len_after = iter.last.len)
          /\ ((iter.steps >= 2 /\ Desynchronized(iter.prev)) => Consumed(iter.last))
    /\ (iter.of = "receive" /\ Desynchronized(iter.last)) => iter.m.data # <<>>
    /\ (iter.of = "parse_frame" /\ iter.steps >= 1) =>
          Consumed(iter.last) \/ iter.last.brk

\* C33's case: receive left its loop after an iteration that desynchronized
\* and the one after it, which consumed up to the next sync byte, and more.
C33_Witness ==
    /\ iter.of = "receive"
    /\ iter.at = "done"
    /\ iter.steps >= 4
    /\ Desynchronized(iter.prev)
    /\ Consumed(iter.last)
    /\ iter.m.data = <<>>

\* The frames of the sequence frames that are ACKs: those of five bytes.
RECURSIVE AckFramesOf(_)
AckFramesOf(frames) ==
    IF frames = <<>> THEN <<>>
    ELSE (IF Len(Head(frames)) = MESSAGE_LENGTH_MIN THEN <<Head(frames)>> ELSE <<>>)
         \o AckFramesOf(Tail(frames))

\* What a single receive call on the whole stream gives.
WholeStream == receive(chunked.sync0, MESSAGE_DEST, chunked.stream, LoopClock)

\* C34: however a byte stream is cut into chunks, each appended to what the
\* last call left before receive is called, the bodies dispatched, the ACKs
\* sent, the final is_synchronized and next_sequence and the bytes left
\* unconsumed are those of a single receive call on the whole stream.
C34_ChunkingInvariance ==
    (chunked.on /\ chunked.fed = Len(chunked.stream) /\ chunked.fed >= 1) =>
        /\ chunked.parsed = Select(WholeStream.m.ev, "parse")
        /\ AckFramesOf(chunked.sent) = AckFramesOf(WholeStream.m.sink)
        /\ chunked.sent = WholeStream.m.sink
        /\ chunked.sync = WholeStream.m.sync
        /\ chunked.ns = WholeStream.m.ns
        /\ chunked.input = WholeStream.input

\* C34's case: a stream of two frames that were both dispatched, given in
\* several calls, some of which left a part of a frame unconsumed.
C34_Witness ==
    /\ chunked.on
    /\ chunked.fed = Len(chunked.stream)
    /\ chunked.held
    /\ Len(chunked.parsed) = 2
    /\ Len(AckFramesOf(chunked.sent)) >= 3
    /\ chunked.input = <<>>

\* C35: whenever receive returns leaving bytes unconsumed, the framer is
\* Synchronized, the first byte left is not 0x7E, and either fewer than 5
\* bytes are left or the first two form a valid header (length in 5..=64, high
\* nibble 0x10) that declares more bytes than are left.
C35_BytesLeft ==
    (Received /\ input # <<>>) =>
        /\ is_synchronized
        /\ input[1] # MESSAGE_VALUE_SYNC
        /\ \/ Len(input) < MESSAGE_LENGTH_MIN
           \/ /\ MESSAGE_LENGTH_MIN <= input[1] /\ input[1] <= MESSAGE_LENGTH_MAX
              /\ input[2] \div (MESSAGE_SEQ_MASK + 1) = 1
              /\ input[1] > Len(input)

\* C35's case: receive returned with six bytes of a frame of seven left.
C35_Witness ==
    /\ Received
    /\ Len(input) = 6
    /\ input[1] = 7
    /\ rx.ev = <<>>
    /\ is_synchronized

\* A correctly sequenced frame whose body fails to decode partway was
\* received, followed by its retransmission, by a synchronized framer with
\* nothing pending.
GivenRetry ==
    /\ Received
    /\ rx.given.kind = "retry"
    /\ rx.sync
    /\ rx.rest = <<>>

\* C36: when the body of a correctly sequenced frame fails to decode
\* partway, the handlers before the failure have run, next_sequence has
\* advanced and the ACK with the advanced sequence is sent; the retransmission
\* of the frame is treated as stale: it is answered by the same ACK and no
\* unit of it is executed, those at and after the failure never.
C36_NoRetry ==
    GivenRetry =>
        /\ Cardinality(EventsOf("accept")) = 2
        /\ 1 \in EventsOf("accept")
        /\ EventsOf("parse") = {2}
        /\ CallsBetween(1, Len(rx.ev)) = CallsOf(GoodPrefix(rx.given.first))
        /\ CallsBetween(1, SegmentEnd(1)) = CallsOf(GoodPrefix(rx.given.first))
        /\ rx.ev[SegmentEnd(1)].e = "out"
        /\ rx.ev[SegmentEnd(1)].bytes = AckFrame(SeqAfter(rx.ns))
        /\ SegmentEnd(1) + 1 \in EventsOf("accept")
        /\ Len(rx.ev) = SegmentEnd(1) + 2
        /\ rx.ev[Len(rx.ev)].e = "out"
        /\ rx.ev[Len(rx.ev)].bytes = AckFrame(SeqAfter(rx.ns))
        /\ next_sequence = SeqAfter(rx.ns)
        /\ is_synchronized
        /\ input = <<>>

\* C36's case: get_clock ran and replied, an unassigned ID ended the body in
\* front of an emergency_stop, and the frame came a second time.
C36_Witness ==
    /\ GivenRetry
    /\ Len(rx.given.first) = 3
    /\ rx.given.first[1].cmd = ID_GET_CLOCK
    /\ rx.given.first[2] \in UnassignedUnits
    /\ Len(CallsBetween(1, Len(rx.ev))) = 1
    /\ Len(sink) = 3

\* The frames a handler sent: the `out` events of the trace that are no ACKs.
RepliesSent ==
    {j \in EventsOf("out") : rx.ev[j].bytes[1] # MESSAGE_LENGTH_MIN}

\* C37: every frame a handler sends while the body of an accepted frame F is
\* dispatched reaches the transport output after the ACKs of all earlier
\* frames and before the ACK of F, and carries the sequence byte of the ACK
\* of F, the already advanced next_sequence.
C37_RepliesBeforeAck ==
    Received =>
        /\ Len(sink) = Cardinality(EventsOf("out"))
        /\ \A j \in EventsOf("out") : sink[OutIndex(j)] = rx.ev[j].bytes
        /\ \A j \in RepliesSent :
              \E i \in EventsOf("accept") :
                 /\ j \in SegmentOf(i)
                 /\ rx.ev[i].n = rx.ev[i + 1].n /\ rx.ev[i + 1].e = "parse"
                 /\ Cardinality(AcksIn(SegmentOf(i))) = 1
                 /\ \A a \in AcksIn(SegmentOf(i)) :
                       /\ j < a
                       /\ rx.ev[j].bytes[MESSAGE_POSITION_SEQ + 1]
                             = rx.ev[a].bytes[MESSAGE_POSITION_SEQ + 1]
                       /\ rx.ev[j].bytes[MESSAGE_POSITION_SEQ + 1] = SeqAfter(rx.ev[i].n)
                 /\ \A k \in EventsOf("accept") :
                       k < i => \A a \in AcksIn(SegmentOf(k)) : a < j

\* C37's case: the second frame of a call carried get_clock; its reply lies
\* between the ACK of the first frame and its own.
C37_Witness ==
    /\ Received
    /\ Cardinality(EventsOf("accept")) = 2
    /\ Len(sink) = 3
    /\ sink[1] = AckFrame(SeqAfter(rx.ns))
    /\ Len(sink[2]) > MESSAGE_LENGTH_MIN
    /\ sink[2][MESSAGE_POSITION_SEQ + 1] = SeqAfter(SeqAfter(rx.ns))
    /\ sink[3] = AckFrame(SeqAfter(SeqAfter(rx.ns)))

\* The value of next_sequence after e stores of receive
SeqAtStore(e) ==
    ((shared.ns0 - MESSAGE_DEST + e) % (MESSAGE_SEQ_MASK + 1)) + MESSAGE_DEST

\* C38: in the byte stream of the sink the sequence bytes of successive
\* frames never go backwards: each frame carries a value next_sequence had
\* at or after the moment the frame in front of it was stamped, under every
\* interleaving of a sender on one context with receive on another.
C38_NeverBackwards ==
    \A k \in 1..(Len(shared.buffer) - 1) :
       \E e \in shared.buffer[k].stamp..shared.stores :
          shared.buffer[k + 1].bytes[MESSAGE_POSITION_SEQ + 1] = SeqAtStore(e)

\* C40: the source scan terminates for every finite set of source files:
\* every out-of-line `mod name;` enqueues a file other than the one that
\* declares it, and no file is enqueued by a chain of declarations that
\* started in that file, so that the queue runs empty.
C40_ScanTerminates ==
    \A k \in 1..Len(tree.p.queue) :
       \A v \in 1..Len(tree.p.queue[k].via) :
          tree.p.queue[k].via[v] # tree.p.queue[k].path

\* What receive makes of the bytes `frame` when it is synchronized and
\* expects the sequence byte ns
Received_as(frame, ns) == receive(TRUE, ns, frame, LoopClock)

\* C39: for every value of next_sequence the bytes encode_acknak emits are
\* those encode_frame emits for an empty body on an empty output buffer, and
\* they are a well-formed frame under the checks of receive: length 5, high
\* nibble 0x10, trailing sync, matching CRC.
C39_AckIsEmptyFrame ==
    shared.receiver.at = "built" =>
        LET ack == result(shared.receiver.ob)
        IN  /\ shared.ns \in MESSAGE_DEST..(MESSAGE_DEST + MESSAGE_SEQ_MASK)
            /\ ack = result(frame_closure(ScratchOutput_new(SCRATCH_MAX_SIZE), shared.ns, <<>>))
            /\ ack = result(frame_closure(Vec_new, shared.ns, <<>>))
            /\ Len(ack) = MESSAGE_LENGTH_MIN
            /\ ack[MESSAGE_POSITION_LENGTH + 1] = MESSAGE_LENGTH_MIN
            /\ ack[MESSAGE_POSITION_SEQ + 1] \div (MESSAGE_SEQ_MASK + 1) = 1
            /\ ack[Len(ack)] = MESSAGE_VALUE_SYNC
            /\ ack[3] * 256 + ack[4] = crc16(<<ack[1], ack[2]>>)
            /\ \E r \in {Received_as(ack, shared.ns)} :
                  /\ r.input = <<>>
                  /\ r.m.sync
                  /\ r.m.ns = advance_sequence(shared.ns)
                  /\ \A i \in 1..Len(r.m.ev) : r.m.ev[i].e # "desync"
                  /\ \E i \in 1..Len(r.m.ev) : r.m.ev[i].e = "accept"

\* C39's case: an ACK built after next_sequence wrapped from 0x1f to 0x10
C39_Witness ==
    /\ shared.receiver.at = "built"
    /\ shared.ns0 = MESSAGE_DEST + MESSAGE_SEQ_MASK
    /\ shared.ns = MESSAGE_DEST
    /\ shared.stores = 1
    /\ result(shared.receiver.ob) = AckFrame(MESSAGE_DEST)

====
